---- MODULE Spec2Model ----
(***************************************************************************)
(* Model of the charging-price dashboard: the currency conversion of       *)
(* PriceTable.tsx and PriceComparison.tsx, the grouping of PriceTable.tsx, *)
(* the single-plan comparison list and the household dataset loader of     *)
(* PriceComparison.tsx, the cards of PriceTable.tsx, the page of App.tsx   *)
(* (three queries settling in any order and the renders of the two         *)
(* components between them), and the chart data of PriceComparison.tsx.    *)
(*                                                                         *)
(* Strings are sequences of one-character strings, so that trim,           *)
(* toUpperCase, split, includes and template concatenation are computed    *)
(* character by character.  Numbers are fractions <<n, d>> in lowest terms *)
(* with d > 0; d = 0 encodes the non-finite doubles (NaN, +-Infinity).     *)
(***************************************************************************)
EXTENDS Integers, Sequences, FiniteSets, TLC

VARIABLES
    price,            \* convertToEUR argument: the amount
    currency,         \* convertToEUR argument: the raw currency label
    exchangeRates,    \* the fetched rate table (ExchangeRates)
    tableEUR,         \* result of PriceTable.tsx convertToEUR, <<>> before
    chartEUR,         \* result of PriceComparison.tsx convertToEUR, <<>> before
    tableKey,         \* rate-table key PriceTable.tsx looked up (NoLookup: none)
    chartKey,         \* rate-table key PriceComparison.tsx looked up
    pricesData,       \* the fetched PriceEntry sequence
    groupedData,      \* result of groupByProvider(pricesData), <<>> before
    power365Prices,   \* the sorted single-plan list, <<>> before
    line,             \* argument of parseCSVLine
    columns,          \* result of parseCSVLine(line), <<>> before
    data,             \* the text of the household dataset
    householdData,    \* result of fetchHouseholdPrices, <<>> before
    householdMap,     \* the Map built from householdData, <<>> before
    model,            \* the PriceEntry a card of the table is rendered for
    card,             \* the elements the card shows, in order, <<>> before
    outcome,          \* what each fetch of the page will end in: status and data
    queries,          \* the status of each query of the shared QueryClient
    settled,          \* the query keys in the order their fetches completed
    tableView,        \* what PriceTable rendered last
    chartView,        \* what PriceComparison rendered last
    hooks,            \* the hooks PriceComparison called in its last render
    chartData,        \* the memos of a data render of PriceComparison, <<>> before
    ran               \* the operations that have run and left their result

vars == <<price, currency, exchangeRates, tableEUR, chartEUR, tableKey, chartKey,
          pricesData, groupedData, power365Prices, line, columns, data,
          householdData, householdMap, model, card, outcome, queries, settled,
          tableView, chartView, hooks, chartData, ran>>

convertVars == <<price, currency, tableEUR, chartEUR, tableKey, chartKey>>
priceVars == <<pricesData, groupedData, power365Prices>>
csvVars == <<line, columns, data, householdData, householdMap>>
viewVars == <<model, card, outcome, queries, settled, tableView, chartView, hooks,
              chartData>>

\* The value of an output before its operation has run.
NotRun == <<>>
\* Marks a conversion that returned before reading the rate table.
NoLookup == <<"no lookup">>
\* The value of a property read that finds no entry.
Undefined == <<"undefined">>
\* null, as a subscription price the backend leaves out.
Null == <<"null">>

-----------------------------------------------------------------------------
(* Numbers *)

RECURSIVE GCD(_, _)
GCD(a, b) == IF b = 0 THEN a ELSE GCD(b, a % b)

Abs(n) == IF n < 0 THEN -n ELSE n

\* The fraction n/d in lowest terms with a positive denominator (d # 0).
Frac(n, d) ==
    LET g == GCD(Abs(n), Abs(d))
        s == IF d < 0 THEN -1 ELSE 1
    IN  <<(s * n) \div g, (s * d) \div g>>

NaN == <<0, 0>>
PosInfinity == <<1, 0>>
NegInfinity == <<-1, 0>>

IsFinite(x) == x[2] # 0
IsNaN(x) == x = NaN

\* a / b for finite a and finite nonzero b.
NumDiv(a, b) == Frac(a[1] * b[2], a[2] * b[1])
\* a * b for finite a, b.
NumMul(a, b) == Frac(a[1] * b[1], a[2] * b[2])
\* a < b; false when either side is NaN, as every comparison with NaN is.
NumLess(a, b) ==
    IF IsNaN(a) \/ IsNaN(b) THEN FALSE
    ELSE IF ~IsFinite(a) THEN a = NegInfinity /\ b # NegInfinity
    ELSE IF ~IsFinite(b) THEN b = PosInfinity
    ELSE a[1] * b[2] < b[1] * a[2]
NumZero == <<0, 1>>

\* JavaScript truthiness of a number that may be missing: undefined, null, 0
\* and NaN are falsy.
Falsy(v) == v = Undefined \/ v = Null \/ v = NumZero \/ v = NaN

-----------------------------------------------------------------------------
(* Strings *)

LowerCase == <<"a","b","c","d","e","f","g","h","i","j","k","l","m",
               "n","o","p","q","r","s","t","u","v","w","x","y","z">>
UpperCase == <<"A","B","C","D","E","F","G","H","I","J","K","L","M",
               "N","O","P","Q","R","S","T","U","V","W","X","Y","Z">>

WhiteSpace == {" ", "\t", "\r"}

toUpperCaseChar(c) ==
    IF \E i \in 1..Len(LowerCase) : LowerCase[i] = c
    THEN UpperCase[CHOOSE i \in 1..Len(LowerCase) : LowerCase[i] = c]
    ELSE c

\* String.prototype.toUpperCase
toUpperCase(s) == [i \in 1..Len(s) |-> toUpperCaseChar(s[i])]

RECURSIVE trimStart(_)
trimStart(s) ==
    IF s # <<>> /\ Head(s) \in WhiteSpace THEN trimStart(Tail(s)) ELSE s

RECURSIVE trimEnd(_)
trimEnd(s) ==
    IF s # <<>> /\ s[Len(s)] \in WhiteSpace
    THEN trimEnd(SubSeq(s, 1, Len(s) - 1))
    ELSE s

\* String.prototype.trim
trim(s) == trimEnd(trimStart(s))

\* A test for the whole string in place of a substring.
includes_WholeString(s, sub) == s = sub

\* String.prototype.includes
includes(s, sub) ==
    \E i \in 0..(Len(s) - Len(sub)) : SubSeq(s, i + 1, i + Len(sub)) = sub

-----------------------------------------------------------------------------
(* Currency conversion *)

EUR == <<"E","U","R">>
GBP == <<"G","B","P">>
USD == <<"U","S","D">>
SEK == <<"S","E","K">>
CHF == <<"C","H","F">>
KR == <<"K","R">>
EuroSign == <<"€">>
PoundSign == <<"£">>
DollarSign == <<"$">>
kr == <<"k","r">>

\* exchangeRates while its query holds no data: undefined, no table at all.
NoRates == [c \in {Undefined} |-> Undefined]

\* rates[code]: the entry, or undefined when the table has none.
RateLookup(rates, code) ==
    IF code \in DOMAIN rates THEN rates[code] ELSE Undefined

\* The symbol table of PriceTable.tsx.
currencyMap_PriceTable ==
    (PoundSign :> GBP) @@ (DollarSign :> USD) @@ (EuroSign :> EUR)

\* The symbol table of PriceComparison.tsx.
currencyMap_PriceComparison ==
    (PoundSign :> GBP) @@ (DollarSign :> USD) @@ (EuroSign :> EUR) @@ (kr :> SEK)

\* The early-return test both files make on the trimmed label.
isEUR(cur) ==
    LET cleanCurrency == trim(cur)
    IN  cleanCurrency = EuroSign \/ toUpperCase(cleanCurrency) = EUR

\* currencyMap[cleanCurrency] || cleanCurrency.toUpperCase()
currencyCode_PriceTable(cur) ==
    LET cleanCurrency == trim(cur)
    IN  IF cleanCurrency \in DOMAIN currencyMap_PriceTable
        THEN currencyMap_PriceTable[cleanCurrency]
        ELSE toUpperCase(cleanCurrency)

currencyCode_PriceComparison(cur) ==
    LET cleanCurrency == trim(cur)
    IN  IF cleanCurrency \in DOMAIN currencyMap_PriceComparison
        THEN currencyMap_PriceComparison[cleanCurrency]
        ELSE toUpperCase(cleanCurrency)

\* PriceTable.tsx convertToEUR with the early return tested on the raw label:
\* no trim, no case folding.
convertRun_PriceTable_RawLabel(p, cur, rates) ==
    IF cur = EuroSign \/ cur = EUR THEN [value |-> p, key |-> NoLookup]
    ELSE LET code == currencyCode_PriceTable(cur)
             rate == RateLookup(rates, code)
         IN  [value |-> IF Falsy(rate) THEN p ELSE NumDiv(p, rate), key |-> code]

\* PriceTable.tsx convertToEUR multiplying by the rate.
convertRun_PriceTable_Times(p, cur, rates) ==
    IF isEUR(cur) THEN [value |-> p, key |-> NoLookup]
    ELSE LET code == currencyCode_PriceTable(cur)
             rate == RateLookup(rates, code)
         IN  [value |-> IF Falsy(rate) THEN p ELSE NumMul(p, rate), key |-> code]

\* One run of convertToEUR of PriceTable.tsx: the value it returns and the
\* key it read from the rate table (NoLookup when it returned before reading).
convertRun_PriceTable(p, cur, rates) ==
    IF isEUR(cur) THEN [value |-> p, key |-> NoLookup]
    ELSE LET code == currencyCode_PriceTable(cur)
             rate == RateLookup(rates, code)
         IN  [value |-> IF Falsy(rate) THEN p ELSE NumDiv(p, rate), key |-> code]

\* convertToEUR of PriceTable.tsx
convertToEUR_PriceTable(p, cur, rates) == convertRun_PriceTable(p, cur, rates).value

\* PriceComparison.tsx convertToEUR without the missing-rate guard: price / undefined.
convertRun_PriceComparison_NoGuard(p, cur, rates) ==
    IF isEUR(cur) THEN [value |-> p, key |-> NoLookup]
    ELSE LET code == currencyCode_PriceComparison(cur)
             rate == RateLookup(rates, code)
         IN  [value |-> IF rate = Undefined \/ rate = NaN THEN NaN
                        ELSE IF rate = NumZero
                             THEN (IF p = NumZero THEN NaN ELSE PosInfinity)
                             ELSE NumDiv(p, rate),
              key |-> code]

\* One run of convertToEUR of PriceComparison.tsx.
convertRun_PriceComparison(p, cur, rates) ==
    IF isEUR(cur) THEN [value |-> p, key |-> NoLookup]
    ELSE LET code == currencyCode_PriceComparison(cur)
             rate == RateLookup(rates, code)
         IN  [value |-> IF Falsy(rate) THEN p ELSE NumDiv(p, rate), key |-> code]

\* convertToEUR of PriceComparison.tsx
convertToEUR_PriceComparison(p, cur, rates) ==
    convertRun_PriceComparison(p, cur, rates).value

-----------------------------------------------------------------------------
(* Inputs of the conversion specification *)

\* Longest run of blanks put on either side of a label.
MaxPad == 1
\* Amounts are k * 0.13 for k in 0..MaxAmount.
MaxAmount == 1

Spaces(n) == [i \in 1..n |-> " "]

LabelCores ==
    { EuroSign, EUR, <<"e","u","r">>, <<"E","u","r">>, PoundSign, DollarSign,
      kr, KR, CHF, <<"c","h","f">>, <<"X","Y","Z">>, <<>> }

Labels ==
    { Spaces(a) \o c \o Spaces(b) : a \in 0..MaxPad, b \in 0..MaxPad, c \in LabelCores }

Amounts == { Frac(13 * k, 100) : k \in 0..MaxAmount }

RateCodes == { EUR, GBP, USD, SEK, KR, CHF }

\* What a fetched table may hold under each code: no entry (Undefined), a
\* zero, or the code's rate (units of the currency per 1 EUR).
RateChoices(code) ==
    IF code = EUR THEN { Undefined, Frac(2, 1) }
    ELSE IF code = GBP THEN { Undefined, NumZero, Frac(17, 20) }
    ELSE IF code = USD THEN { Undefined, Frac(27, 25) }
    ELSE IF code = SEK THEN { Undefined, Frac(11, 1) }
    ELSE IF code = KR THEN { Undefined, Frac(3, 1) }
    ELSE { Undefined, Frac(19, 20) }

TableOf(f) == [c \in { x \in RateCodes : f[x] # Undefined } |-> f[c]]

\* The table holding the given choice under each code.
TableOfChoices(eur, gbp, usd, sek, krr, chf) ==
    TableOf((EUR :> eur) @@ (GBP :> gbp) @@ (USD :> usd) @@ (SEK :> sek)
              @@ (KR :> krr) @@ (CHF :> chf))

RateTables ==
    { TableOfChoices(eur, gbp, usd, sek, krr, chf) :
        eur \in RateChoices(EUR), gbp \in RateChoices(GBP), usd \in RateChoices(USD),
        sek \in RateChoices(SEK), krr \in RateChoices(KR), chf \in RateChoices(CHF) }

IdleConvert ==
    /\ price = NumZero /\ currency = <<>>
    /\ tableEUR = NotRun /\ chartEUR = NotRun
    /\ tableKey = NotRun /\ chartKey = NotRun

IdlePrices ==
    /\ pricesData = <<>> /\ groupedData = NotRun /\ power365Prices = NotRun

IdleCsv ==
    /\ line = <<>> /\ columns = NotRun /\ data = <<>> /\ householdData = NotRun
    /\ householdMap = NotRun

IdleCard ==
    /\ model = <<>> /\ card = NotRun

IdlePage ==
    /\ outcome = <<>> /\ queries = <<>> /\ settled = <<>>
    /\ tableView = NotRun /\ chartView = NotRun /\ hooks = 0
    /\ chartData = NotRun

IdleView == IdleCard /\ IdlePage

InitConvert ==
    /\ price \in Amounts
    /\ currency \in Labels
    /\ exchangeRates \in RateTables
    /\ ran = {}
    /\ tableEUR = NotRun /\ chartEUR = NotRun
    /\ tableKey = NotRun /\ chartKey = NotRun
    /\ IdlePrices /\ IdleCsv /\ IdleView

\* A card of the table converts the amount (PriceTable.tsx, convertToEUR).
ConvertInTable ==
    /\ "table" \notin ran
    /\ ran' = ran \cup {"table"}
    /\ tableEUR' = convertRun_PriceTable(price, currency, exchangeRates).value
    /\ tableKey' = convertRun_PriceTable(price, currency, exchangeRates).key
    /\ UNCHANGED <<price, currency, exchangeRates, chartEUR, chartKey, priceVars, csvVars, viewVars>>

\* The chart converts the amount (PriceComparison.tsx, convertToEUR).
ConvertInChart ==
    /\ "chart" \notin ran
    /\ ran' = ran \cup {"chart"}
    /\ chartEUR' = convertRun_PriceComparison(price, currency, exchangeRates).value
    /\ chartKey' = convertRun_PriceComparison(price, currency, exchangeRates).key
    /\ UNCHANGED <<price, currency, exchangeRates, tableEUR, tableKey, priceVars, csvVars, viewVars>>

NextConvert == ConvertInTable \/ ConvertInChart

SpecConvert == InitConvert /\ [][NextConvert]_vars

-----------------------------------------------------------------------------
(* Claims about the conversion *)

\* The labels that name the reference currency: the euro sign, or EUR in any
\* mix of cases, with any blanks around it.
CaseVariantsOfEUR ==
    { <<a, b, c>> : a \in {"e", "E"}, b \in {"u", "U"}, c \in {"r", "R"} }

IsReferenceLabel(cur) ==
    \E a \in 0..Len(cur), b \in 0..Len(cur) :
        \E c \in {EuroSign} \cup CaseVariantsOfEUR :
            /\ cur = Spaces(a) \o c \o Spaces(b)

\* C1: identity law. When the label, trimmed, is the euro sign or EUR in any
\* case, both convertToEUR functions return the amount unchanged, whatever the
\* rate table holds (empty, or with an EUR entry other than 1), and neither
\* reads the rate table.
C1_IdentityLaw ==
    IsReferenceLabel(currency) =>
        /\ "table" \in ran => (tableEUR = price /\ tableKey = NoLookup)
        /\ "chart" \in ran => (chartEUR = price /\ chartKey = NoLookup)

\* A padded lower-case "eur" converted by both components under a table whose
\* EUR entry is 2.
C1_Witness ==
    /\ ran = {"table", "chart"}
    /\ currency = <<" ", "e", "u", "r", " ">>
    /\ price # NumZero
    /\ EUR \in DOMAIN exchangeRates
    /\ tableEUR = price /\ chartEUR = price

\* C2: conversion law. When a conversion looked a code up and the table holds
\* a nonzero rate under it, the result is the amount divided by that rate,
\* exactly: the result times the rate is the amount again.
C2_ConversionLaw ==
    /\ (/\ "table" \in ran /\ tableKey # NoLookup
        /\ tableKey \in DOMAIN exchangeRates
        /\ exchangeRates[tableKey] # NumZero)
       => /\ tableEUR = Frac(price[1] * exchangeRates[tableKey][2],
                             price[2] * exchangeRates[tableKey][1])
          /\ NumMul(tableEUR, exchangeRates[tableKey]) = price
    /\ (/\ "chart" \in ran /\ chartKey # NoLookup
        /\ chartKey \in DOMAIN exchangeRates
        /\ exchangeRates[chartKey] # NumZero)
       => /\ chartEUR = Frac(price[1] * exchangeRates[chartKey][2],
                             price[2] * exchangeRates[chartKey][1])
          /\ NumMul(chartEUR, exchangeRates[chartKey]) = price

\* A pound-sign amount converted by both components at GBP 0.85.
C2_Witness ==
    /\ ran = {"table", "chart"}
    /\ currency = <<" ", "£", " ">>
    /\ price = Frac(13, 100)
    /\ GBP \in DOMAIN exchangeRates /\ exchangeRates[GBP] = Frac(17, 20)
    /\ tableEUR = Frac(13, 85) /\ chartEUR = Frac(13, 85)

\* C3: fallback law. When the code a conversion looked up has no entry in the
\* rate table, the result is the original amount, a number, and nothing fails.
C3_FallbackLaw ==
    /\ ("table" \in ran /\ tableKey # NoLookup /\ tableKey \notin DOMAIN exchangeRates)
       => tableEUR = price
    /\ ("chart" \in ran /\ chartKey # NoLookup /\ chartKey \notin DOMAIN exchangeRates)
       => chartEUR = price

\* An unrecognised label, XYZ, converted by both components.
C3_Witness ==
    /\ ran = {"table", "chart"}
    /\ currency = <<"X", "Y", "Z">>
    /\ price # NumZero
    /\ tableKey = <<"X", "Y", "Z">> /\ chartKey = <<"X", "Y", "Z">>
    /\ tableEUR = price /\ chartEUR = price

\* The resolution the claim states: the symbol table first, then upper-casing.
Resolve(cur) ==
    LET t == trim(cur)
    IN  IF t = PoundSign THEN GBP
        ELSE IF t = DollarSign THEN USD
        ELSE IF t = kr THEN SEK
        ELSE toUpperCase(t)

\* C4: symbol resolution. In every conversion, of the table and of the chart,
\* the key looked up in the rate table is GBP for the pound sign, USD for the
\* dollar sign, SEK for "kr", and otherwise the trimmed label upper-cased.
C4_SymbolResolution ==
    /\ ("table" \in ran /\ tableKey # NoLookup) => tableKey = Resolve(currency)
    /\ ("chart" \in ran /\ chartKey # NoLookup) => chartKey = Resolve(currency)

\* The chart's conversion alone resolves as the claim states.
C4_ChartResolution ==
    ("chart" \in ran /\ chartKey # NoLookup) => chartKey = Resolve(currency)

\* The table's conversion resolves every label but "kr" as the claim states.
C4_TableResolutionButKr ==
    (("table" \in ran /\ tableKey # NoLookup) /\ trim(currency) # kr)
        => tableKey = Resolve(currency)

-----------------------------------------------------------------------------
(* Grouping: groupByProvider of PriceTable.tsx *)

\* "Limit to 4 models per row"
ModelsPerRow == 4

\* The template literal `${entry.country}-${entry.provider}`.
groupKey(entry) == entry.country \o <<"-">> \o entry.provider

\* The position of the property `key` in grouped, 0 when grouped has none.
keyIndex(grouped, key) ==
    IF \E i \in 1..Len(grouped) : grouped[i].key = key
    THEN CHOOSE i \in 1..Len(grouped) : grouped[i].key = key
    ELSE 0

\* The forEach callback with a limit of 5 models instead of 4.
groupEntry_FiveModels(grouped, entry) ==
    LET key == groupKey(entry)
        created == IF keyIndex(grouped, key) = 0
                   THEN Append(grouped, [key |-> key, country |-> entry.country,
                                         provider |-> entry.provider, models |-> <<>>])
                   ELSE grouped
        i == keyIndex(created, key)
    IN  IF Len(created[i].models) < ModelsPerRow + 1
        THEN [created EXCEPT ![i].models = Append(@, entry)]
        ELSE created

\* The forEach callback putting a new group in front of the others.
groupEntry_NewGroupFirst(grouped, entry) ==
    LET key == groupKey(entry)
        created == IF keyIndex(grouped, key) = 0
                   THEN <<[key |-> key, country |-> entry.country,
                           provider |-> entry.provider, models |-> <<>>]>> \o grouped
                   ELSE grouped
        i == keyIndex(created, key)
    IN  IF Len(created[i].models) < ModelsPerRow
        THEN [created EXCEPT ![i].models = Append(@, entry)]
        ELSE created

\* The forEach callback: grouped is the object under construction, held as the
\* sequence of its properties in insertion order (every key contains "-", so
\* none is an integer index that Object.values would move to the front).
groupEntry(grouped, entry) ==
    LET key == groupKey(entry)
        created == IF keyIndex(grouped, key) = 0
                   THEN Append(grouped, [key |-> key, country |-> entry.country,
                                         provider |-> entry.provider, models |-> <<>>])
                   ELSE grouped
        i == keyIndex(created, key)
    IN  IF Len(created[i].models) < ModelsPerRow
        THEN [created EXCEPT ![i].models = Append(@, entry)]
        ELSE created

RECURSIVE groupForEach(_, _)
groupForEach(grouped, prices) ==
    IF prices = <<>> THEN grouped
    ELSE groupForEach(groupEntry(grouped, Head(prices)), Tail(prices))

\* groupByProvider: Object.values of the grouped object.
groupByProvider(prices) ==
    LET grouped == groupForEach(<<>>, prices)
    IN  [i \in 1..Len(grouped) |->
            [country |-> grouped[i].country, provider |-> grouped[i].provider,
             models |-> grouped[i].models]]

-----------------------------------------------------------------------------
(* Inputs and specification of the grouping *)

\* Longest fetched record sequence given to groupByProvider.
MaxPrices == 5

Austria == <<"A","u","s","t","r","i","a">>
IONITY == <<"I","O","N","I","T","Y">>
Passport == <<"P","a","s","s","p","o","r","t">>

\* A PriceEntry.
Entry(id, country, provider, cur, plan, kWh, monthly, yearly) ==
    [_id |-> id, country |-> country, currency |-> cur, provider |-> provider,
     pricing_model_name |-> plan, price_kWh |-> kWh,
     monthly_subscription_price |-> monthly, yearly_subscription_price |-> yearly]

\* Country and provider names; two of them contain the "-" that the grouping
\* key is joined with.
GroupCountries == { <<"A">>, <<"A","-","B">> }
GroupProviders == { <<"C">>, <<"B","-","C">> }

GroupInputs ==
    UNION { { [i \in 1..n |->
                 Entry(<<i>>, f[i][1], f[i][2], EuroSign, Passport, Frac(39, 100),
                       Undefined, Undefined)] :
              f \in [1..n -> GroupCountries \X GroupProviders] } : n \in 0..MaxPrices }

InitGroup ==
    /\ pricesData \in GroupInputs
    /\ ran = {}
    /\ groupedData = NotRun /\ power365Prices = NotRun
    /\ exchangeRates = <<>>
    /\ IdleConvert /\ IdleCsv /\ IdleView

\* PriceTable renders with the fetched records: groupByProvider(pricesData || []).
GroupByProvider ==
    /\ "group" \notin ran
    /\ ran' = ran \cup {"group"}
    /\ groupedData' = groupByProvider(pricesData)
    /\ UNCHANGED <<pricesData, power365Prices, exchangeRates, convertVars, csvVars, viewVars>>

NextGroup == GroupByProvider

SpecGroup == InitGroup /\ [][NextGroup]_vars

-----------------------------------------------------------------------------
(* Claims about the grouping *)

Min(a, b) == IF a < b THEN a ELSE b

\* The input records whose key is the key of group G, in input order.
RecordsOfGroup(G) ==
    LET sameKey(r) == r.country \o <<"-">> \o r.provider
                        = G.country \o <<"-">> \o G.provider
    IN  SelectSeq(pricesData, sameKey)

\* How many records before position i carry the key of record i.
EarlierOfKey(i) ==
    Cardinality({ j \in 1..(i - 1) : groupKey(pricesData[j]) = groupKey(pricesData[i]) })

InSomeGroup(r) ==
    \E g \in 1..Len(groupedData) :
        \E m \in 1..Len(groupedData[g].models) : groupedData[g].models[m] = r

\* C5: truncation. Every group holds at most 4 records: the first min(4, n)
\* input records that carry the group's key, in input order; the 5th and
\* later records of a key are in no group.
C5_Truncation ==
    "group" \in ran =>
        /\ \A g \in 1..Len(groupedData) :
              /\ Len(groupedData[g].models) <= 4
              /\ groupedData[g].models =
                    SubSeq(RecordsOfGroup(groupedData[g]), 1,
                           Min(4, Len(RecordsOfGroup(groupedData[g]))))
        /\ \A i \in 1..Len(pricesData) :
              EarlierOfKey(i) >= 4 => ~InSomeGroup(pricesData[i])

\* Five records of one country and provider were grouped: four are kept.
C5_Witness ==
    /\ "group" \in ran
    /\ Len(pricesData) = 5
    /\ \A i \in 1..5 : pricesData[i].country = <<"A">> /\ pricesData[i].provider = <<"C">>
    /\ Len(groupedData) = 1
    /\ groupedData[1].models = SubSeq(pricesData, 1, 4)

\* The group that holds record r (0 when none does).
GroupOf(r) ==
    IF InSomeGroup(r)
    THEN CHOOSE g \in 1..Len(groupedData) :
            \E m \in 1..Len(groupedData[g].models) : groupedData[g].models[m] = r
    ELSE 0

\* C6: the grouping key is the pair (country, provider). Two grouped records
\* are in the same group exactly when they have the same country and the same
\* provider, and a group's country and provider are those of each of its
\* models.
C6_PairKey ==
    "group" \in ran =>
        /\ \A i, j \in 1..Len(pricesData) :
              (InSomeGroup(pricesData[i]) /\ InSomeGroup(pricesData[j])) =>
                  ((GroupOf(pricesData[i]) = GroupOf(pricesData[j]))
                     <=> (/\ pricesData[i].country = pricesData[j].country
                          /\ pricesData[i].provider = pricesData[j].provider))
        /\ \A g \in 1..Len(groupedData) :
              \A m \in 1..Len(groupedData[g].models) :
                  /\ groupedData[g].models[m].country = groupedData[g].country
                  /\ groupedData[g].models[m].provider = groupedData[g].provider

\* What the code does instead: two grouped records share a group exactly when
\* the joined strings country-provider are equal.
C6_JoinedKey ==
    "group" \in ran =>
        \A i, j \in 1..Len(pricesData) :
            (InSomeGroup(pricesData[i]) /\ InSomeGroup(pricesData[j])) =>
                ((GroupOf(pricesData[i]) = GroupOf(pricesData[j]))
                   <=> groupKey(pricesData[i]) = groupKey(pricesData[j]))

\* The first input position that carries the key of group G.
FirstOccurrence(G) ==
    CHOOSE i \in 1..Len(pricesData) :
        /\ groupKey(pricesData[i]) = G.country \o <<"-">> \o G.provider
        /\ \A j \in 1..(i - 1) :
              groupKey(pricesData[j]) # G.country \o <<"-">> \o G.provider

\* C7: group order. The groups come in the order in which their keys first
\* occur in the input: insertion order, not sorted.
C7_GroupOrder ==
    "group" \in ran =>
        /\ \A g \in 1..Len(groupedData) :
              \E i \in 1..Len(pricesData) :
                  groupKey(pricesData[i])
                    = groupedData[g].country \o <<"-">> \o groupedData[g].provider
        /\ \A a, b \in 1..Len(groupedData) :
              a < b => FirstOccurrence(groupedData[a]) < FirstOccurrence(groupedData[b])

\* Three groups whose keys first occur in an order that is not the sorted one
\* (A-C before A-B-C before A-B-B-C), the first key occurring again at the end.
C7_Witness ==
    /\ "group" \in ran
    /\ Len(pricesData) = 4
    /\ Len(groupedData) = 3
    /\ groupedData[1].country = <<"A">> /\ groupedData[1].provider = <<"C">>
    /\ groupedData[2].country = <<"A">> /\ groupedData[2].provider = <<"B","-","C">>
    /\ groupedData[3].country = <<"A","-","B">>
    /\ groupedData[3].provider = <<"B","-","C">>
    /\ pricesData[4].provider = <<"C">> /\ pricesData[4].country = <<"A">>

-----------------------------------------------------------------------------
(* The single-plan comparison list: power365Prices of PriceComparison.tsx *)

IONITY_Power_365 ==
    <<"I","O","N","I","T","Y"," ","P","o","w","e","r"," ","3","6","5">>

\* The comparator (a, b) => b.priceEUR - a.priceEUR is negative: the reversed order.
comesBefore_Descending(a, b) == NumLess(b.priceEUR, a.priceEUR)

\* The comparator (a, b) => a.priceEUR - b.priceEUR is negative: a sorts
\* before b.
comesBefore(a, b) == NumLess(a.priceEUR, b.priceEUR)

\* One step of the stable sort: x goes before the first element that the
\* comparator puts after it, so behind every element it ties with.
RECURSIVE insertStable(_, _)
insertStable(sorted, x) ==
    IF sorted = <<>> THEN <<x>>
    ELSE IF comesBefore(x, Head(sorted)) THEN <<x>> \o sorted
    ELSE <<Head(sorted)>> \o insertStable(Tail(sorted), x)

\* Array.prototype.sort with the comparator above (stable, ECMAScript 2019).
RECURSIVE sortByPriceEUR(_)
sortByPriceEUR(seq) ==
    IF seq = <<>> THEN <<>>
    ELSE insertStable(sortByPriceEUR(SubSeq(seq, 1, Len(seq) - 1)), seq[Len(seq)])

isPower365(p) == p.pricing_model_name = IONITY_Power_365

\* The map callback: one CountryPrice.
countryPrice(p, rates) ==
    [country |-> p.country,
     priceEUR |-> IF rates = NoRates THEN p.price_kWh
                  ELSE convertToEUR_PriceComparison(p.price_kWh, p.currency, rates),
     originalPrice |-> p.price_kWh,
     currency |-> p.currency]

\* (pricesData || []).filter(...).map(...).sort(...)
computePower365Prices(prices, rates) ==
    LET filtered == SelectSeq(prices, isPower365)
        mapped == [i \in 1..Len(filtered) |-> countryPrice(filtered[i], rates)]
    IN  sortByPriceEUR(mapped)

\* Longest fetched record sequence given to the plan filter.
MaxPlanPrices == 3

Switzerland == <<"S","w","i","t","z","e","r","l","a","n","d">>
Germany == <<"G","e","r","m","a","n","y">>
Liechtenstein == <<"L","i","e","c","h","t","e","n","s","t","e","i","n">>
Sweden == <<"S","w","e","d","e","n">>

\* The records the plan filter is tried on: 0.39 EUR, 0.65 CHF, and three
\* that come to 0.40 EUR (0.40 EUR, 0.38 CHF at 0.95, 4.40 kr at 11), plus a
\* record of another plan.
PlanPool ==
    { <<Austria, EuroSign, Frac(39, 100), IONITY_Power_365>>,
      <<Switzerland, CHF, Frac(65, 100), IONITY_Power_365>>,
      <<Germany, EuroSign, Frac(40, 100), IONITY_Power_365>>,
      <<Liechtenstein, CHF, Frac(38, 100), IONITY_Power_365>>,
      <<Sweden, kr, Frac(44, 10), IONITY_Power_365>>,
      <<Austria, EuroSign, Frac(30, 100), Passport>> }

PlanInputs ==
    UNION { { [i \in 1..n |->
                 Entry(<<i>>, f[i][1], IONITY, f[i][2], f[i][4], f[i][3],
                       Undefined, Undefined)] :
              f \in [1..n -> PlanPool] } : n \in 0..MaxPlanPrices }

PlanTables ==
    { TableOfChoices(Undefined, Undefined, Undefined, sek, Undefined, chf) :
        sek \in RateChoices(SEK), chf \in RateChoices(CHF) }

InitPlan ==
    /\ pricesData \in PlanInputs
    /\ exchangeRates \in PlanTables
    /\ ran = {}
    /\ groupedData = NotRun /\ power365Prices = NotRun
    /\ IdleConvert /\ IdleCsv /\ IdleView

\* PriceComparison renders with the fetched records and rates: the
\* power365Prices memo is computed.
ComputePower365Prices ==
    /\ "plan" \notin ran
    /\ ran' = ran \cup {"plan"}
    /\ power365Prices' = computePower365Prices(pricesData, exchangeRates)
    /\ UNCHANGED <<pricesData, groupedData, exchangeRates, convertVars, csvVars, viewVars>>

NextPlan == ComputePower365Prices

SpecPlan == InitPlan /\ [][NextPlan]_vars

-----------------------------------------------------------------------------
(* Claims about the comparison list *)

\* The positions of the fetched records of the plan, ascending.
PlanPositions ==
    LET RECURSIVE pos(_)
        pos(i) == IF i > Len(pricesData) THEN <<>>
                  ELSE IF pricesData[i].pricing_model_name = IONITY_Power_365
                       THEN <<i>> \o pos(i + 1)
                       ELSE pos(i + 1)
    IN  pos(1)

\* C8: the comparison list is sorted ascending by EUR amount and stable. Its
\* entries are the fetched records of the plan, each once, so arranged that
\* no entry has a smaller EUR amount than an earlier one, and entries of equal
\* EUR amount stand in the order of their records in the fetched sequence.
C8_SortedStable ==
    "plan" \in ran =>
        LET F == PlanPositions
            n == Len(F)
        IN  /\ Len(power365Prices) = n
            /\ \E pi \in { f \in [1..n -> 1..n] : \A a, b \in 1..n : a # b => f[a] # f[b] } :
                  /\ \A k \in 1..n :
                        /\ power365Prices[k].country = pricesData[F[pi[k]]].country
                        /\ power365Prices[k].originalPrice = pricesData[F[pi[k]]].price_kWh
                        /\ power365Prices[k].currency = pricesData[F[pi[k]]].currency
                  /\ \A k, l \in 1..n :
                        k < l =>
                          /\ ~NumLess(power365Prices[l].priceEUR, power365Prices[k].priceEUR)
                          /\ power365Prices[k].priceEUR = power365Prices[l].priceEUR
                                => pi[k] < pi[l]

\* 0.65 CHF fetched first, then 0.40 EUR and 0.38 CHF, at CHF 0.95: the two
\* 0.40 EUR entries keep their fetched order and come before Switzerland.
C8_Witness ==
    /\ "plan" \in ran
    /\ Len(pricesData) = 3
    /\ pricesData[1].country = Switzerland
    /\ Len(power365Prices) = 3
    /\ power365Prices[1].country = Germany
    /\ power365Prices[2].country = Liechtenstein
    /\ power365Prices[1].priceEUR = power365Prices[2].priceEUR
    /\ power365Prices[3].country = Switzerland
    /\ power365Prices[3].priceEUR = Frac(13, 19)

-----------------------------------------------------------------------------
(* The household dataset loader: fetchHouseholdPrices of PriceComparison.tsx *)

Quote == "\""
Comma == ","
NewLine == "\n"

\* parseCSVLine splitting at every comma and keeping the quotes, as
\* line.split(',') with trimmed fields does.
RECURSIVE parseLoop_SplitAtEveryComma(_, _, _, _)
parseLoop_SplitAtEveryComma(rest, result, current, inQuotes) ==
    IF rest = <<>> THEN Append(result, trim(current))
    ELSE IF Head(rest) = Comma
         THEN parseLoop_SplitAtEveryComma(Tail(rest), Append(result, trim(current)), <<>>,
                                          inQuotes)
         ELSE parseLoop_SplitAtEveryComma(Tail(rest), result, Append(current, Head(rest)),
                                          inQuotes)

\* The for loop of parseCSVLine over the characters still to scan, and the
\* push of the last field after it.
RECURSIVE parseLoop(_, _, _, _)
parseLoop(rest, result, current, inQuotes) ==
    IF rest = <<>> THEN Append(result, trim(current))
    ELSE IF Head(rest) = Quote
         THEN parseLoop(Tail(rest), result, current, ~inQuotes)
         ELSE IF Head(rest) = Comma /\ ~inQuotes
              THEN parseLoop(Tail(rest), Append(result, trim(current)), <<>>, inQuotes)
              ELSE parseLoop(Tail(rest), result, Append(current, Head(rest)), inQuotes)

parseCSVLine(l) == parseLoop(l, <<>>, <<>>, FALSE)

Digits == <<"0","1","2","3","4","5","6","7","8","9">>

IsDigit(c) == \E i \in 1..10 : Digits[i] = c
DigitValue(c) == (CHOOSE i \in 1..10 : Digits[i] = c) - 1

\* The length of the longest prefix of s made of digits.
RECURSIVE digitRun(_)
digitRun(s) == IF s # <<>> /\ IsDigit(Head(s)) THEN 1 + digitRun(Tail(s)) ELSE 0

\* The number a digit string denotes (0 for the empty string).
RECURSIVE digitsValue(_)
digitsValue(s) ==
    IF s = <<>> THEN 0
    ELSE 10 * digitsValue(SubSeq(s, 1, Len(s) - 1)) + DigitValue(s[Len(s)])

RECURSIVE Pow10(_)
Pow10(n) == IF n = 0 THEN 1 ELSE 10 * Pow10(n - 1)

InfinityLiteral == <<"I","n","f","i","n","i","t","y">>

startsWith(s, prefix) ==
    Len(s) >= Len(prefix) /\ SubSeq(s, 1, Len(prefix)) = prefix

\* parseFloat: leading white space is skipped, then the longest prefix that is
\* a decimal literal (sign, Infinity or digits with an optional fraction) is
\* read and what follows is ignored; NaN when there is no such prefix.
\* Exponent parts are not modelled: no input tried here holds an "e".
parseFloat(str) ==
    LET s == trimStart(str)
        signed == s # <<>> /\ Head(s) \in {"+", "-"}
        negative == s # <<>> /\ Head(s) = "-"
        body == IF signed THEN Tail(s) ELSE s
        nInt == digitRun(body)
        afterInt == SubSeq(body, nInt + 1, Len(body))
        hasDot == afterInt # <<>> /\ Head(afterInt) = "."
        nFrac == IF hasDot THEN digitRun(Tail(afterInt)) ELSE 0
        intValue == digitsValue(SubSeq(body, 1, nInt))
        fracValue == digitsValue(SubSeq(afterInt, 2, nFrac + 1))
        magnitude == Frac(intValue * Pow10(nFrac) + fracValue, Pow10(nFrac))
    IN  IF startsWith(body, InfinityLiteral)
        THEN (IF negative THEN NegInfinity ELSE PosInfinity)
        ELSE IF nInt = 0 /\ nFrac = 0 THEN NaN
        ELSE IF negative THEN <<-magnitude[1], magnitude[2]>>
        ELSE magnitude

\* String.prototype.split('\n'): the pieces of the text between its line
\* feeds, one more than the line feeds.
splitLines(text) ==
    LET feeds == { i \in 1..Len(text) : text[i] = NewLine }
        \* position of the k-th line feed; 0 before the first piece, and
        \* Len(text) + 1 after the last
        feedAt == [k \in 0..(Cardinality(feeds) + 1) |->
                     IF k = 0 THEN 0
                     ELSE IF k > Cardinality(feeds) THEN Len(text) + 1
                     ELSE CHOOSE i \in feeds : Cardinality({ j \in feeds : j < i }) = k - 1]
    IN  [k \in 1..(Cardinality(feeds) + 1) |->
            SubSeq(text, feedAt[k - 1] + 1, feedAt[k] - 1)]

Czechia == <<"C","z","e","c","h","i","a">>
Czech_Republic == <<"C","z","e","c","h"," ","R","e","p","u","b","l","i","c">>
North_Macedonia == <<"N","o","r","t","h"," ","M","a","c","e","d","o","n","i","a">>
Macedonia == <<"M","a","c","e","d","o","n","i","a">>
Euro_area == <<"E","u","r","o"," ","a","r","e","a">>
European_Union == <<"E","u","r","o","p","e","a","n"," ","U","n","i","o","n">>

\* Country name mapping from CSV to the charging data.
countryMap == (Czechia :> Czech_Republic) @@ (North_Macedonia :> Macedonia)

\* The fields a row needs: country is columns[8], the price columns[10].
MinColumns == 11

constructor == <<"c","o","n","s","t","r","u","c","t","o","r">>

\* The property names an object literal inherits from Object.prototype: a
\* read of countryMap[name] finds a function or an object under each.
ObjectPrototypeNames ==
    { constructor,
      <<"h","a","s","O","w","n","P","r","o","p","e","r","t","y">>,
      <<"i","s","P","r","o","t","o","t","y","p","e","O","f">>,
      <<"p","r","o","p","e","r","t","y","I","s","E","n","u","m","e","r","a","b","l","e">>,
      <<"t","o","L","o","c","a","l","e","S","t","r","i","n","g">>,
      <<"t","o","S","t","r","i","n","g">>,
      <<"v","a","l","u","e","O","f">>,
      <<"_","_","p","r","o","t","o","_","_">>,
      <<"_","_","d","e","f","i","n","e","G","e","t","t","e","r","_","_">>,
      <<"_","_","d","e","f","i","n","e","S","e","t","t","e","r","_","_">>,
      <<"_","_","l","o","o","k","u","p","G","e","t","t","e","r","_","_">>,
      <<"_","_","l","o","o","k","u","p","S","e","t","t","e","r","_","_">> }

\* The value of an inherited property: neither a string nor falsy.
InheritedMember(name) == <<"Object.prototype">> \o name

\* countryMap[country]
countryMapGet(name) ==
    IF name \in DOMAIN countryMap THEN countryMap[name]
    ELSE IF name \in ObjectPrototypeNames THEN InheritedMember(name)
    ELSE Undefined

\* An acceptance test that lets a price of 0 through: price >= 0.
isPositive_OrZero(x) == x = NumZero \/ NumLess(NumZero, x)

\* price > 0
isPositive(x) == NumLess(NumZero, x)

\* The body of the loop over the lines: the entries one line pushes, none or
\* one. columns[8] and columns[10] are the 9th and 11th of a sequence that
\* starts at 1.
householdRow(l) ==
    IF trim(l) = <<>> THEN <<>>
    ELSE LET cols == parseCSVLine(l)
         IN  IF Len(cols) < MinColumns THEN <<>>
             ELSE LET csvCountry == cols[9]
                      priceStr == cols[11]
                      mapped == countryMapGet(csvCountry)
                      country == IF mapped = Undefined THEN csvCountry ELSE mapped
                      parsed == parseFloat(priceStr)
                  IN  IF includes(csvCountry, Euro_area)
                         \/ includes(csvCountry, European_Union)
                      THEN <<>>
                      ELSE IF ~IsNaN(parsed) /\ isPositive(parsed)
                           THEN <<[country |-> country, priceEUR |-> parsed]>>
                           ELSE <<>>

RECURSIVE householdRows(_)
householdRows(lines) ==
    IF lines = <<>> THEN <<>>
    ELSE householdRow(Head(lines)) \o householdRows(Tail(lines))

\* A loader that keeps the first line: what the code would do without
\* .slice(1).
fetchHouseholdPrices_KeepHeader(text) == householdRows(splitLines(text))

\* fetchHouseholdPrices on the fetched text: data.split('\n').slice(1), then
\* the loop.
fetchHouseholdPrices(text) == householdRows(Tail(splitLines(text)))

\* Map.prototype.set on a Map kept as the sequence of its entries in
\* insertion order, without overwriting: the first value of a key stays.
mapSet_KeepFirst(entries, key, value) ==
    IF \E i \in 1..Len(entries) : entries[i].key = key
    THEN entries
    ELSE Append(entries, [key |-> key, value |-> value])

\* Map.prototype.set: the value of a key the Map holds is replaced in place,
\* a new key is appended.
mapSet(entries, key, value) ==
    IF \E i \in 1..Len(entries) : entries[i].key = key
    THEN [i \in 1..Len(entries) |->
            IF entries[i].key = key THEN [key |-> key, value |-> value]
            ELSE entries[i]]
    ELSE Append(entries, [key |-> key, value |-> value])

\* new Map(), then map.set(h.country, h.priceEUR) for each entry in order.
RECURSIVE householdPriceMapFrom(_, _)
householdPriceMapFrom(map, entries) ==
    IF entries = <<>> THEN map
    ELSE householdPriceMapFrom(mapSet(map, Head(entries).country, Head(entries).priceEUR),
                               Tail(entries))

householdPriceMap(entries) == householdPriceMapFrom(<<>>, entries)

-----------------------------------------------------------------------------
(* Inputs and specifications of the loader *)

\* Longest line given to parseCSVLine on its own.
MaxLineLen == 5
\* Most data rows of a dataset text.
MaxRows == 2

LineAlphabet == { Quote, Comma, "a", " " }

LineInputs == UNION { [1..n -> LineAlphabet] : n \in 0..MaxLineLen }

RECURSIVE join(_, _)
join(parts, sep) ==
    IF parts = <<>> THEN <<>>
    ELSE IF Len(parts) = 1 THEN parts[1]
    ELSE parts[1] \o <<sep>> \o join(Tail(parts), sep)

Empty == <<>>

\* A data row of the dataset: the country in field 8, the price in field 10,
\* the other fields empty.
Row(country, priceStr) ==
    join(<<Empty, Empty, Empty, Empty, Empty, Empty, Empty, Empty,
           country, Empty, priceStr>>, Comma)

Quoted(str) == <<Quote>> \o str \o <<Quote>>

RowCountries == { Germany, Euro_area }

PriceStrings ==
    { <<"0",".","2","5">>, <<"a","b","c">>, <<"-","1">>, <<"0">>, InfinityLiteral }

\* A row of 9 fields only.
ShortRow == join(<<Empty, Empty, Empty, Empty, Empty, Empty, Empty, Empty, Germany>>, Comma)

\* A row of 12 fields with other countries and prices around fields 8 and 10.
FullRow ==
    join(<<Czechia, <<"0",".","5">>, Empty, Empty, Empty, Empty, Empty, Empty,
           Germany, <<"9">>, <<"0",".","1","8">>, <<"7">>>>, Comma)

\* A country field that holds "Euro area" inside a longer name.
Euro_area_EA == <<"x", " ">> \o Euro_area \o <<" ", "(", "E", "A", ")">>

\* Rows with the aliased names, their targets and the aggregate regions.
NamedRows ==
    { Row(Czechia, <<"0",".","2","5">>),
      Row(North_Macedonia, <<"0",".","2","5">>),
      Row(Macedonia, <<"0",".","1","8">>),
      Row(Czech_Republic, <<"0",".","1","8">>),
      Row(European_Union, <<"0",".","2","5">>),
      Row(Euro_area_EA, <<"0",".","2","5">>),
      Row(constructor, <<"0",".","2","5">>) }

RowPool ==
    { Row(c, p) : c \in RowCountries, p \in PriceStrings }
      \cup { ShortRow, <<" ">>,
             Row(Quoted(Germany), Quoted(<<"0",".","1","8">>)) }
      \cup { FullRow } \cup NamedRows

HeaderLines == { <<"h","e","a","d">>, Row(Germany, <<"0",".","2","5">>) }

DataInputs ==
    UNION { { join(<<h>> \o rows, NewLine) : h \in HeaderLines, rows \in [1..n -> RowPool] } :
            n \in 0..MaxRows }

InitCsvLine ==
    /\ line \in LineInputs
    /\ columns = NotRun /\ data = <<>> /\ householdData = NotRun
    /\ householdMap = NotRun
    /\ ran = {}
    /\ exchangeRates = <<>>
    /\ IdleConvert /\ IdlePrices /\ IdleView

\* The loader splits one line into its fields.
ParseCSVLine ==
    /\ "parse" \notin ran
    /\ ran' = ran \cup {"parse"}
    /\ columns' = parseCSVLine(line)
    /\ UNCHANGED <<line, data, householdData, householdMap, exchangeRates,
                   convertVars, priceVars, viewVars>>

NextCsvLine == ParseCSVLine

SpecCsvLine == InitCsvLine /\ [][NextCsvLine]_vars

InitLoader ==
    /\ data \in DataInputs
    /\ line = <<>> /\ columns = NotRun /\ householdData = NotRun
    /\ householdMap = NotRun
    /\ ran = {}
    /\ exchangeRates = <<>>
    /\ IdleConvert /\ IdlePrices /\ IdleView

\* The household query resolves: fetchHouseholdPrices has parsed the text.
FetchHouseholdPrices ==
    /\ "load" \notin ran
    /\ ran' = ran \cup {"load"}
    /\ householdData' = fetchHouseholdPrices(data)
    /\ UNCHANGED <<line, columns, data, householdMap, exchangeRates,
                   convertVars, priceVars, viewVars>>

\* PriceComparison renders with the household data delivered and builds the
\* lookup.
BuildHouseholdPriceMap ==
    /\ "load" \in ran /\ "map" \notin ran
    /\ ran' = ran \cup {"map"}
    /\ householdMap' = householdPriceMap(householdData)
    /\ UNCHANGED <<line, columns, data, householdData, exchangeRates,
                   convertVars, priceVars, viewVars>>

NextLoader == FetchHouseholdPrices \/ BuildHouseholdPriceMap

SpecLoader == InitLoader /\ [][NextLoader]_vars

-----------------------------------------------------------------------------
(* Claims about the loader *)

\* C9: price acceptance. Every entry the loader returns has a price that is a
\* finite number strictly greater than zero: rows whose price field is not a
\* number, is zero, negative or not finite leave no entry.
C9_PriceAcceptance ==
    "load" \in ran =>
        \A i \in 1..Len(householdData) :
            /\ IsFinite(householdData[i].priceEUR)
            /\ NumLess(NumZero, householdData[i].priceEUR)

\* What the code's test, !isNaN(price) && price > 0, does give: every entry's
\* price is a number greater than zero, Infinity included.
C9_PositiveOrInfinite ==
    "load" \in ran =>
        \A i \in 1..Len(householdData) :
            /\ householdData[i].priceEUR # NaN
            /\ NumLess(NumZero, householdData[i].priceEUR)

QuotesBefore(i) == Cardinality({ j \in 1..(i - 1) : line[j] = Quote })

\* The positions of the commas of line that stand outside quotes, ascending.
SeparatorPositions ==
    LET RECURSIVE seps(_)
        seps(i) == IF i > Len(line) THEN <<>>
                   ELSE IF line[i] = Comma /\ QuotesBefore(i) % 2 = 0
                        THEN <<i>> \o seps(i + 1)
                        ELSE seps(i + 1)
    IN  seps(1)

RECURSIVE withoutQuotes(_)
withoutQuotes(str) ==
    IF str = <<>> THEN <<>>
    ELSE IF Head(str) = Quote THEN withoutQuotes(Tail(str))
    ELSE <<Head(str)>> \o withoutQuotes(Tail(str))

\* C10: field splitting. A quote toggles the in-quotes state and is dropped,
\* and a comma ends a field only outside quotes: the fields are 1 more than
\* the commas outside quotes, each field is the trimmed text between two such
\* commas without its quotes, and no field holds a quote.
C10_FieldSplitting ==
    "parse" \in ran =>
        LET seps == SeparatorPositions
            bounds == <<0>> \o seps \o <<Len(line) + 1>>
        IN  /\ Len(columns) = 1 + Len(seps)
            /\ \A k \in 1..Len(columns) :
                  /\ columns[k] =
                        trim(withoutQuotes(SubSeq(line, bounds[k] + 1, bounds[k + 1] - 1)))
                  /\ \A m \in 1..Len(columns[k]) : columns[k][m] # Quote

\* The line "a,", was split: the comma inside the quotes stays in the first
\* field, the one after them ends it.
C10_Witness ==
    /\ "parse" \in ran
    /\ line = <<Quote, "a", Comma, Quote, Comma>>
    /\ columns = << <<"a", Comma>>, <<>> >>

\* The lines that may contribute: not the first one, not blank, 11 fields or
\* more. lines are the lines of the text, fields the fields of each line.
SelectedLines(lines, fields) ==
    { i \in 2..Len(lines) : trim(lines[i]) # <<>> /\ Len(fields[i]) >= 11 }

\* Entry k of the output comes from line pick[k] of the text.
ComesFrom(pick, fields) ==
    /\ \A j, k \in DOMAIN pick : j < k => pick[j] < pick[k]
    /\ \A k \in DOMAIN pick :
          LET columnsOfLine == fields[pick[k]]
          IN  /\ householdData[k].priceEUR = parseFloat(columnsOfLine[11])
              /\ \/ householdData[k].country = columnsOfLine[9]
                 \/ householdData[k].country = countryMapGet(columnsOfLine[9])

\* C11: row selection. The entries of the output come, in order, from
\* distinct lines of the text that are not the first line, are not blank and
\* have 11 fields or more; each entry's country is taken from field index 8
\* of its line and its price from field index 10.
C11_RowSelection ==
    "load" \in ran =>
        LET lines == splitLines(data)
            fields == [i \in 1..Len(lines) |-> parseCSVLine(lines[i])]
        IN  \E pick \in [1..Len(householdData) -> SelectedLines(lines, fields)] :
                ComesFrom(pick, fields)

\* The first line is a well-formed row at 0.25, the second is blank, the third
\* has 12 fields: the only entry is the third line's, Germany at 0.18.
C11_Witness ==
    /\ "load" \in ran
    /\ data = join(<<Row(Germany, <<"0",".","2","5">>), <<" ">>, FullRow>>, NewLine)
    /\ householdData = <<[country |-> Germany, priceEUR |-> Frac(9, 50)]>>

\* C12: household lookup uniqueness. The lookup holds one entry for each
\* resolved country name of an accepted row and no other, never two entries
\* for one name, and the value of a name is the price of the last accepted row
\* of the text that resolves to it.
C12_LastRowWins ==
    "map" \in ran =>
        LET rows == Tail(splitLines(data))
            accepted == [i \in 1..Len(rows) |-> householdRow(rows[i])]
            RowsOf(name) == { i \in 1..Len(rows) :
                                accepted[i] # <<>> /\ accepted[i][1].country = name }
            Last(S) == CHOOSE i \in S : \A j \in S : j <= i
            names == { accepted[i][1].country : i \in { j \in 1..Len(rows) : accepted[j] # <<>> } }
        IN  /\ \A j, k \in 1..Len(householdMap) :
                  j # k => householdMap[j].key # householdMap[k].key
            /\ { householdMap[k].key : k \in 1..Len(householdMap) } = names
            /\ \A k \in 1..Len(householdMap) :
                  householdMap[k].value =
                      accepted[Last(RowsOf(householdMap[k].key))][1].priceEUR

\* A "Czechia" row at 0.25 is followed by a "Czech Republic" row at 0.18: the
\* lookup holds Czech Republic once, at 0.18.
C12_Witness ==
    /\ "map" \in ran
    /\ data = join(<<<<"h","e","a","d">>, Row(Czechia, <<"0",".","2","5">>),
                     Row(Czech_Republic, <<"0",".","1","8">>)>>, NewLine)
    /\ householdMap = <<[key |-> Czech_Republic, value |-> Frac(9, 50)]>>

\* str is before \o sub \o after for some before and after.
HasSubstring(str, sub) ==
    \E i \in 0..Len(str) :
        /\ i + Len(sub) <= Len(str)
        /\ \A m \in 1..Len(sub) : str[i + m] = sub[m]

NamesAggregateRegion(name) ==
    HasSubstring(name, Euro_area) \/ HasSubstring(name, European_Union)

\* C13: aggregate-region exclusion. No entry of the output names an
\* aggregate region, and the output has no more entries than the text has
\* selected lines whose country field names none: a row whose country field
\* contains "Euro area" or "European Union" leaves no entry, whatever its
\* price.
C13_AggregatesExcluded ==
    "load" \in ran =>
        LET lines == splitLines(data)
            fields == [i \in 1..Len(lines) |-> parseCSVLine(lines[i])]
            others == { i \in SelectedLines(lines, fields) :
                          ~NamesAggregateRegion(fields[i][9]) }
        IN  /\ \A k \in 1..Len(householdData) :
                  ~NamesAggregateRegion(householdData[k].country)
            /\ Len(householdData) <= Cardinality(others)

\* A row whose country field holds "Euro area" inside a longer name and a
\* "European Union" row, both at 0.25, were read: the output is empty.
C13_Witness ==
    /\ "load" \in ran
    /\ data = join(<<<<"h","e","a","d">>, Row(Euro_area_EA, <<"0",".","2","5">>),
                     Row(European_Union, <<"0",".","2","5">>)>>, NewLine)
    /\ householdData = <<>>

\* The name the alias table gives a country field.
Alias(name) ==
    IF name = Czechia THEN Czech_Republic
    ELSE IF name = North_Macedonia THEN Macedonia
    ELSE name

\* Entry k of the output is named as line pick[k] of the text asks.
NamedAfter(pick, fields) ==
    /\ \A j, k \in DOMAIN pick : j < k => pick[j] < pick[k]
    /\ \A k \in DOMAIN pick : householdData[k].country = Alias(fields[pick[k]][9])

\* C14: country aliasing. Every entry of the output comes from a row and is
\* named "Czech Republic" when the row's country field is "Czechia",
\* "Macedonia" when it is "North Macedonia", and exactly as the field in every
\* other case; no entry is named "Czechia" or "North Macedonia".
C14_Aliasing ==
    "load" \in ran =>
        LET lines == splitLines(data)
            fields == [i \in 1..Len(lines) |-> parseCSVLine(lines[i])]
        IN  /\ \E pick \in [1..Len(householdData) -> SelectedLines(lines, fields)] :
                  NamedAfter(pick, fields)
            /\ \A k \in 1..Len(householdData) :
                  householdData[k].country \notin { Czechia, North_Macedonia }

\* What the lookup countryMap[country] || country does give: the law of C14
\* for the texts none of whose country fields is a property name of
\* Object.prototype.
C14_AliasingOfPlainNames ==
    "load" \in ran =>
        LET lines == splitLines(data)
            fields == [i \in 1..Len(lines) |-> parseCSVLine(lines[i])]
        IN  (\A i \in SelectedLines(lines, fields) : fields[i][9] \notin ObjectPrototypeNames)
            => /\ \E pick \in [1..Len(householdData) -> SelectedLines(lines, fields)] :
                     NamedAfter(pick, fields)
               /\ \A k \in 1..Len(householdData) :
                     householdData[k].country \notin { Czechia, North_Macedonia }

-----------------------------------------------------------------------------
(* The cards of the table (PriceTable.tsx, models.map) *)

\* The decimal digits of a natural number.
RECURSIVE digitsOf(_)
digitsOf(n) ==
    IF n < 10 THEN <<Digits[n + 1]>>
    ELSE Append(digitsOf(n \div 10), Digits[(n % 10) + 1])

\* The text of n hundredths: the integer part, a point, two digits.
hundredthsText(n) ==
    digitsOf(n \div 100) \o <<".">> \o <<Digits[((n % 100) \div 10) + 1], Digits[(n % 10) + 1]>>

NaNLiteral == <<"N","a","N">>

\* A formatting that cuts the digits after the second decimal off.
toFixed2_Truncate(x) ==
    IF x = NaN THEN NaNLiteral
    ELSE IF x = PosInfinity THEN InfinityLiteral
    ELSE IF x = NegInfinity THEN <<"-">> \o InfinityLiteral
    ELSE (IF x[1] < 0 THEN <<"-">> ELSE <<>>)
            \o hundredthsText((Abs(x[1]) * 100) \div x[2])

\* Number.prototype.toFixed(2): the hundredths nearest to the number, the
\* larger of two that are equally near.
toFixed2(x) ==
    IF x = NaN THEN NaNLiteral
    ELSE IF x = PosInfinity THEN InfinityLiteral
    ELSE IF x = NegInfinity THEN <<"-">> \o InfinityLiteral
    ELSE (IF x[1] < 0 THEN <<"-">> ELSE <<>>)
            \o hundredthsText((2 * Abs(x[1]) * 100 + x[2]) \div (2 * x[2]))

\* The isEUR test of a card on the raw label: no trim, no case folding.
modelIsEUR_RawLabel(m) == m.currency = EuroSign \/ m.currency = EUR

\* const isEUR = model.currency.trim() === "\u20ac" || ...toUpperCase() === "EUR"
modelIsEUR(m) ==
    trim(m.currency) = EuroSign \/ toUpperCase(trim(m.currency)) = EUR

\* const priceInEUR = !isEUR && exchangeRates ? convertToEUR(...).toFixed(2) : null
priceInEUR(m, rates) ==
    IF ~modelIsEUR(m) /\ rates # NoRates
    THEN toFixed2(convertToEUR_PriceTable(m.price_kWh, m.currency, rates))
    ELSE Null

\* monthlyInEUR and yearlyInEUR:
\* !isEUR && amount && exchangeRates ? convertToEUR(amount, ...).toFixed(2) : null
subscriptionInEUR(amount, m, rates) ==
    IF ~modelIsEUR(m) /\ ~Falsy(amount) /\ rates # NoRates
    THEN toFixed2(convertToEUR_PriceTable(amount, m.currency, rates))
    ELSE Null

\* One element of a card: what it is, the amount it belongs to, its text.
Element(role, unit, text) == [role |-> role, unit |-> unit, text |-> text]

\* The amount in the record's currency, and under it the EUR line:
\* {model.currency}{amount.toFixed(2)}, then {!isEUR && inEUR && (...)}.
amountLines(unit, amount, m, inEUR) ==
    <<Element("price", unit, m.currency \o toFixed2(amount))>>
      \o (IF ~modelIsEUR(m) /\ inEUR # Null
          THEN <<Element("converted", unit, EuroSign \o inEUR)>>
          ELSE <<>>)

\* {amount && (<div>...</div>)}: the block when the amount is truthy; React
\* shows nothing for null and undefined, and the number itself for 0 and NaN.
subscriptionBlock(unit, amount, m, rates) ==
    IF amount = Null \/ amount = Undefined THEN <<>>
    ELSE IF amount = NumZero THEN <<Element("text", unit, <<"0">>)>>
    ELSE IF amount = NaN THEN <<Element("text", unit, NaNLiteral)>>
    ELSE <<Element("heading", unit, <<>>)>>
           \o amountLines(unit, amount, m, subscriptionInEUR(amount, m, rates))

\* const hasSubscription = monthly_subscription_price || yearly_subscription_price
hasSubscription(m) ==
    ~Falsy(m.monthly_subscription_price) \/ ~Falsy(m.yearly_subscription_price)

\* The card of one pricing model.
renderCard(m, rates) ==
    amountLines("kWh", m.price_kWh, m, priceInEUR(m, rates))
      \o (IF hasSubscription(m)
          THEN subscriptionBlock("month", m.monthly_subscription_price, m, rates)
                 \o subscriptionBlock("year", m.yearly_subscription_price, m, rates)
          ELSE <<Element("noSubscription", "none", <<>>)>>)

\* The rate table of the tests: CHF 0.95, GBP 0.85, USD 1.08.
mockExchangeRates ==
    (CHF :> Frac(19, 20)) @@ (GBP :> Frac(17, 20)) @@ (USD :> Frac(27, 25))

CardTables ==
    { NoRates, mockExchangeRates,
      (GBP :> NumZero) @@ (KR :> Frac(3, 1)) @@ (CHF :> Frac(19, 20)) }

\* Per-kWh prices of the tests.
CardPrices == { Frac(39, 100), Frac(13, 20), Frac(11, 20) }

MonthlyPrices == { Null, Undefined, NumZero, Frac(599, 100) }

YearlyPrices == { Null, NumZero, Frac(1999, 100) }

CardModels ==
    { Entry(<<"1">>, Austria, IONITY, cur, Passport, kWh, monthly, yearly) :
        cur \in Labels, kWh \in CardPrices,
        monthly \in MonthlyPrices, yearly \in YearlyPrices }

InitCard ==
    /\ model \in CardModels
    /\ exchangeRates \in CardTables
    /\ card = NotRun
    /\ ran = {}
    /\ IdleConvert /\ IdlePrices /\ IdleCsv /\ IdlePage

\* PriceTable renders the card of the model.
RenderCard ==
    /\ "card" \notin ran
    /\ ran' = ran \cup {"card"}
    /\ card' = renderCard(model, exchangeRates)
    /\ UNCHANGED <<model, exchangeRates, convertVars, priceVars, csvVars,
                   outcome, queries, settled, tableView, chartView, hooks, chartData>>

NextCard == RenderCard

SpecCard == InitCard /\ [][NextCard]_vars

-----------------------------------------------------------------------------
(* Claims about the cards *)

\* The elements of the card that show an amount of the given unit.
AmountsShown(unit) ==
    { i \in 1..Len(card) : card[i].unit = unit /\ card[i].role \in {"price", "converted"} }

\* C15: no duplicate for EUR records. When the record's label is the euro
\* sign or EUR in any case, with or without blanks around it, the card has no
\* EUR conversion line: the per-kWh price is shown exactly once, and the
\* monthly and the yearly price at most once each.
C15_NoConversionOfEUR ==
    ("card" \in ran /\ IsReferenceLabel(model.currency)) =>
        /\ \A i \in 1..Len(card) : card[i].role # "converted"
        /\ Cardinality(AmountsShown("kWh")) = 1
        /\ Cardinality(AmountsShown("month")) <= 1
        /\ Cardinality(AmountsShown("year")) <= 1

\* The card of a record labelled " eur " with a yearly price, under the rate
\* table of the tests: the per-kWh price, the yearly heading, the yearly price.
C15_Witness ==
    /\ "card" \in ran
    /\ model.currency = <<" ", "e", "u", "r", " ">>
    /\ model.yearly_subscription_price = Frac(1999, 100)
    /\ Falsy(model.monthly_subscription_price)
    /\ exchangeRates = mockExchangeRates
    /\ Len(card) = 3
    /\ card[3].text = <<" ", "e", "u", "r", " ", "1", "9", ".", "9", "9">>

\* The text is digits, a point and two digits.
IsTwoDecimals(str) ==
    /\ Len(str) >= 4
    /\ str[Len(str) - 2] = "."
    /\ \A i \in (1..Len(str)) \ {Len(str) - 2} : \E d \in 0..9 : Digits[d + 1] = str[i]

DigitOf(c) == CHOOSE d \in 0..9 : Digits[d + 1] = c

\* The hundredths a two-decimal text denotes.
RECURSIVE HundredthsShown(_)
HundredthsShown(str) ==
    IF str = <<>> THEN 0
    ELSE IF str[Len(str)] = "." THEN HundredthsShown(SubSeq(str, 1, Len(str) - 1))
    ELSE 10 * HundredthsShown(SubSeq(str, 1, Len(str) - 1)) + DigitOf(str[Len(str)])

\* The text shows the amount x rounded to 2 decimals: it denotes h hundredths
\* with |h/100 - x| <= 1/200.
ShowsRounded(str, x) ==
    /\ IsTwoDecimals(str)
    /\ LET h == HundredthsShown(str)
       IN  /\ 200 * x[1] - x[2] <= 2 * h * x[2]
           /\ 2 * h * x[2] <= 200 * x[1] + x[2]

\* C16: conversion shown for the other currencies. When the label is not EUR
\* and the rate table is loaded and holds a nonzero rate under the code the
\* label resolves to, the card shows the original per-kWh price, the raw
\* label before it, and after it a EUR line: the euro sign and the price
\* divided by the rate, rounded to 2 decimals.
C16_ConversionShown ==
    (/\ "card" \in ran
     /\ ~IsReferenceLabel(model.currency)
     /\ exchangeRates # NoRates
     /\ currencyCode_PriceTable(model.currency) \in DOMAIN exchangeRates
     /\ exchangeRates[currencyCode_PriceTable(model.currency)] # NumZero)
    => LET rate == exchangeRates[currencyCode_PriceTable(model.currency)]
           label == model.currency
       IN  /\ Len(card) >= 2
           /\ card[1].role = "price" /\ card[1].unit = "kWh"
           /\ SubSeq(card[1].text, 1, Len(label)) = label
           /\ ShowsRounded(SubSeq(card[1].text, Len(label) + 1, Len(card[1].text)),
                           model.price_kWh)
           /\ card[2].role = "converted" /\ card[2].unit = "kWh"
           /\ SubSeq(card[2].text, 1, 1) = EuroSign
           /\ ShowsRounded(Tail(card[2].text),
                           Frac(model.price_kWh[1] * rate[2], model.price_kWh[2] * rate[1]))
           /\ AmountsShown("kWh") = {1, 2}

\* The card of 0.55 pounds at GBP 0.85: 0.55 after the pound sign, then 0.65
\* after the euro sign (0.647 rounded).
C16_Witness ==
    /\ "card" \in ran
    /\ model.currency = PoundSign
    /\ model.price_kWh = Frac(11, 20)
    /\ exchangeRates = mockExchangeRates
    /\ card[1].text = <<"£", "0", ".", "5", "5">>
    /\ card[2].text = <<"€", "0", ".", "6", "5">>

\* The record has the subscription price: the field holds a number.
HasPrice(amount) == amount # Null /\ amount # Undefined

BlockShown(unit) ==
    \E i \in 1..Len(card) : card[i].role = "heading" /\ card[i].unit = unit

NoSubscriptionShown ==
    \E i \in 1..Len(card) : card[i].role = "noSubscription"

\* C17: subscription display. The card shows the "no subscription" text
\* exactly when the record has neither a monthly nor a yearly price, the
\* monthly block when it has a monthly price and the yearly block when it
\* has a yearly price (both blocks when it has both).
C17_SubscriptionDisplay ==
    "card" \in ran =>
        /\ NoSubscriptionShown <=>
              (~HasPrice(model.monthly_subscription_price)
                 /\ ~HasPrice(model.yearly_subscription_price))
        /\ HasPrice(model.monthly_subscription_price) => BlockShown("month")
        /\ HasPrice(model.yearly_subscription_price) => BlockShown("year")

\* What the truthiness tests of the card do give: the law of C17 with "has a
\* price" read as "has a price other than 0", and a block only for such a
\* price.
C17_NonzeroSubscriptionDisplay ==
    "card" \in ran =>
        /\ NoSubscriptionShown <=>
              (Falsy(model.monthly_subscription_price)
                 /\ Falsy(model.yearly_subscription_price))
        /\ BlockShown("month") <=> ~Falsy(model.monthly_subscription_price)
        /\ BlockShown("year") <=> ~Falsy(model.yearly_subscription_price)

-----------------------------------------------------------------------------
(* The page: the three queries and the two components (App.tsx) *)

\* The query keys of the page. PriceTable and PriceComparison share one
\* QueryClient, so "prices" and "exchangeRates" are one query each for both.
QueryKeys == { "prices", "exchangeRates", "householdPrices" }

\* The queries PriceTable reads.
TableQueries == { "prices", "exchangeRates" }

\* A completion that cancels the fetches still under way.
settle_CancelOthers(q, key, status) ==
    [k \in QueryKeys |->
        IF k = key THEN status ELSE IF q[k] = "loading" THEN "error" ELSE q[k]]

\* The fetch of one query completes: its status leaves "loading" for
\* "success" or "error"; the other queries are untouched.
settle(q, key, status) == [q EXCEPT ![key] = status]

\* A loading test that looks at the price query only.
tableLoading_PricesOnly(q) == q["prices"] = "loading"

\* pricesLoading || ratesLoading
tableLoading(q) == q["prices"] = "loading" \/ q["exchangeRates"] = "loading"

\* An error test that looks at the price query only.
tableError_PricesOnly(q) == q["prices"] = "error"

\* pricesError || ratesError
tableError(q) == q["prices"] = "error" \/ q["exchangeRates"] = "error"

\* pricesLoading || ratesLoading || householdLoading
comparisonLoading(q) == \E k \in QueryKeys : q[k] = "loading"

\* pricesError || ratesError || householdError
comparisonError(q) == \E k \in QueryKeys : q[k] = "error"

\* What a component rendered: which of its returns, the query statuses the
\* render read, and the content it shows (cards or chart entries).
View(state, inputs, content) == [state |-> state, inputs |-> inputs, content |-> content]

\* A component React has removed from the page.
Unmounted(keys) == View("unmounted", [k \in keys |-> "unmounted"], <<>>)

\* The text of a cell that holds no card.
NoAdditionalPlans == <<"No additional plans">>

\* A row filled up to five cells.
placeholders_FiveSlots(models) ==
    [index \in 1..(5 - Len(models)) |-> NoAdditionalPlans]

\* Array.from({ length: 4 - models.length }).map(...): the cells that fill
\* the row of a group up (a length below 0 makes the empty array).
placeholders(models) ==
    [index \in 1..(4 - Len(models)) |-> NoAdditionalPlans]

\* groupedData.map(...): a card row for each group, a card for each model,
\* then the placeholder cells.
renderGroups(prices, rates) ==
    LET grouped == groupByProvider(prices)
    IN  [i \in 1..Len(grouped) |->
            [country |-> grouped[i].country, provider |-> grouped[i].provider,
             cards |-> [j \in 1..Len(grouped[i].models) |->
                          renderCard(grouped[i].models[j], rates)],
             placeholders |-> placeholders(grouped[i].models)]]

\* One render of PriceTable. prices and rates are the data of the two
\* queries: <<>> stands for pricesData || [] of an undefined pricesData.
PriceTable(q, prices, rates) ==
    LET inputs == [k \in TableQueries |-> q[k]]
    IN  IF tableLoading(q) THEN View("loading", inputs, <<>>)
        ELSE IF tableError(q) THEN View("error", inputs, <<>>)
        ELSE View("data", inputs, renderGroups(prices, rates))

\* countriesWithBothPrices: the single-plan list, kept where the household
\* lookup has the country.
countriesWithBothPrices(prices, rates, household) ==
    LET map == householdPriceMap(household)
    IN  SelectSeq(computePower365Prices(prices, rates),
                  LAMBDA p : \E i \in 1..Len(map) : map[i].key = p.country)

\* A render of PriceComparison that tests for an error before it tests for a
\* fetch still loading.
PriceComparison_ErrorFirst(q, prices, rates, household) ==
    IF comparisonError(q) THEN View("error", q, <<>>)
    ELSE IF comparisonLoading(q) THEN View("loading", q, <<>>)
    ELSE View("data", q, countriesWithBothPrices(prices, rates, household))

\* One render of PriceComparison.
PriceComparison(q, prices, rates, household) ==
    IF comparisonLoading(q) THEN View("loading", q, <<>>)
    ELSE IF comparisonError(q) THEN View("error", q, <<>>)
    ELSE View("data", q, countriesWithBothPrices(prices, rates, household))

\* The hooks a render of PriceComparison calls: useRef twice and useQuery
\* three times before the early returns, six useMemo and one useEffect after.
hooksCalled(q) ==
    IF comparisonLoading(q) \/ comparisonError(q) THEN 5 ELSE 12

PagePrices ==
    { <<Entry(<<"1">>, Austria, IONITY, EuroSign, Passport,
              Frac(39, 100), Null, Frac(1999, 100)),
        Entry(<<"2">>, Switzerland, IONITY, CHF, IONITY_Power_365,
              Frac(13, 20), Null, Null)>>,
      <<Entry(<<"3">>, Germany, IONITY, PoundSign, IONITY_Power_365,
              Frac(11, 20), Frac(599, 100), Null)>> }

PageTexts ==
    { join(<<<<"h","e","a","d">>, Row(Germany, <<"0",".","2","5">>)>>, NewLine),
      join(<<<<"h","e","a","d">>, Row(Czechia, <<"0",".","2","5">>),
             Row(Switzerland, <<"0",".","1","8">>)>>, NewLine) }

\* What a fetch may end in: a failure, or a success with its data.
PriceOutcomes ==
    { [status |-> "error", data |-> <<>>] }
      \cup { [status |-> "success", data |-> d] : d \in PagePrices }

RateOutcomes ==
    { [status |-> "error", data |-> NoRates] }
      \cup { [status |-> "success", data |-> d] : d \in CardTables \ {NoRates} }

HouseholdOutcomes ==
    { [status |-> "error", data |-> <<>>] }
      \cup { [status |-> "success", data |-> d] : d \in PageTexts }

\* The page after its first render: the three fetches are under way, both
\* components have rendered their loading state.
InitPage ==
    /\ \E p \in PriceOutcomes, r \in RateOutcomes, h \in HouseholdOutcomes :
          outcome = [prices |-> p, exchangeRates |-> r, householdPrices |-> h]
    /\ queries = [k \in QueryKeys |-> "loading"]
    /\ settled = <<>>
    /\ pricesData = <<>> /\ exchangeRates = NoRates /\ householdData = <<>>
    /\ tableView = View("loading", [k \in TableQueries |-> "loading"], <<>>)
    /\ chartView = View("loading", [k \in QueryKeys |-> "loading"], <<>>)
    /\ hooks = 5
    /\ chartData = NotRun
    /\ groupedData = NotRun /\ power365Prices = NotRun
    /\ line = <<>> /\ columns = NotRun /\ data = <<>> /\ householdMap = NotRun
    /\ ran = {}
    /\ IdleConvert /\ IdleCard

\* The fetch of a query completes as its outcome says; a success delivers the
\* data (the household text parsed by fetchHouseholdPrices).
Settle(key) ==
    /\ queries[key] = "loading"
    /\ queries' = settle(queries, key, outcome[key].status)
    /\ settled' = Append(settled, key)
    /\ pricesData' = IF key = "prices" /\ outcome[key].status = "success"
                     THEN outcome[key].data ELSE pricesData
    /\ exchangeRates' = IF key = "exchangeRates" /\ outcome[key].status = "success"
                        THEN outcome[key].data ELSE exchangeRates
    /\ householdData' = IF key = "householdPrices" /\ outcome[key].status = "success"
                        THEN fetchHouseholdPrices(outcome[key].data) ELSE householdData
    /\ UNCHANGED <<outcome, tableView, chartView, hooks, chartData, model, card, ran,
                   groupedData, power365Prices, line, columns, data, householdMap,
                   convertVars>>

\* React renders PriceTable from the current state of its queries.
RenderTable ==
    /\ tableView.state # "unmounted"
    /\ tableView' = PriceTable(queries, pricesData, exchangeRates)
    /\ UNCHANGED <<outcome, queries, settled, chartView, hooks, chartData, model, card, ran,
                   exchangeRates, priceVars, csvVars, convertVars>>

\* React renders PriceComparison from the current state of its queries. A
\* render that calls another number of hooks than the render before it
\* throws ("Rendered more hooks than during the previous render"); no error
\* boundary is around the components, so React removes the whole page.
RenderComparison ==
    /\ chartView.state # "unmounted"
    /\ IF hooksCalled(queries) # hooks
       THEN /\ tableView' = Unmounted(TableQueries)
            /\ chartView' = Unmounted(QueryKeys)
            /\ hooks' = hooks
       ELSE /\ chartView' = PriceComparison(queries, pricesData, exchangeRates, householdData)
            /\ hooks' = hooksCalled(queries)
            /\ UNCHANGED tableView
    /\ UNCHANGED <<outcome, queries, settled, chartData, model, card, ran,
                   exchangeRates, priceVars, csvVars, convertVars>>

NextPage == (\E key \in QueryKeys : Settle(key)) \/ RenderTable \/ RenderComparison

SpecPage == InitPage /\ [][NextPage]_vars

-----------------------------------------------------------------------------
(* Claims about the page *)

\* C18: fully-resolved inputs. In every interleaving of the fetches, a render
\* of PriceTable that shows its data view read both of its queries as
\* succeeded and shows the groups and cards of the whole delivered price list
\* under the delivered rate table; a render of PriceComparison that shows
\* its data view read all three queries as succeeded and charts the whole
\* delivered data; every other render shows no card and no chart entry.
C18_FullyResolvedInputs ==
    /\ tableView.state = "data" =>
          /\ \A k \in TableQueries : tableView.inputs[k] = "success"
          /\ tableView.content =
                renderGroups(outcome["prices"].data, outcome["exchangeRates"].data)
    /\ tableView.state # "data" => tableView.content = <<>>
    /\ chartView.state = "data" =>
          /\ \A k \in QueryKeys : chartView.inputs[k] = "success"
          /\ chartView.content =
                countriesWithBothPrices(outcome["prices"].data,
                                        outcome["exchangeRates"].data,
                                        fetchHouseholdPrices(outcome["householdPrices"].data))
    /\ chartView.state # "data" => chartView.content = <<>>

\* Prices and rates are delivered and the household fetch is still under way:
\* PriceTable shows its cards, PriceComparison its loading state.
C18_Witness ==
    /\ queries["prices"] = "success" /\ queries["exchangeRates"] = "success"
    /\ queries["householdPrices"] = "loading"
    /\ tableView.state = "data" /\ Len(tableView.content) = 2
    /\ chartView.state = "loading"
    /\ chartView.inputs["prices"] = "success"

\* C19: upstream failure. A render of a component that read one of the
\* component's queries as failed and none as loading shows the error state,
\* with no card and no chart entry.
C19_UpstreamFailure ==
    /\ (/\ \E k \in TableQueries : tableView.inputs[k] = "error"
        /\ \A k \in TableQueries : tableView.inputs[k] # "loading")
       => (tableView.state = "error" /\ tableView.content = <<>>)
    /\ (/\ \E k \in QueryKeys : chartView.inputs[k] = "error"
        /\ \A k \in QueryKeys : chartView.inputs[k] # "loading")
       => (chartView.state = "error" /\ chartView.content = <<>>)

\* The rate fetch failed after the two others succeeded, and both components
\* have rendered since: both show the error state.
C19_Witness ==
    /\ settled = <<"prices", "householdPrices", "exchangeRates">>
    /\ queries["exchangeRates"] = "error"
    /\ queries["prices"] = "success" /\ queries["householdPrices"] = "success"
    /\ tableView.inputs = [k \in TableQueries |-> queries[k]]
    /\ chartView.inputs = queries
    /\ tableView.state = "error" /\ chartView.state = "error"

\* Every fetch has completed and the page shows it: React has removed the
\* page, or the last render of each component read the final statuses.
AllSettledAndRendered ==
    /\ \A k \in QueryKeys : queries[k] # "loading"
    /\ \/ tableView.state = "unmounted"
       \/ /\ tableView.inputs = [k \in TableQueries |-> queries[k]]
          /\ chartView.inputs = queries

\* What the page shows in the end, from the outcomes of the fetches alone.
FinalStatuses == [k \in QueryKeys |-> outcome[k].status]

FinalTableView ==
    IF \A k \in QueryKeys : FinalStatuses[k] = "success"
    THEN Unmounted(TableQueries)
    ELSE IF \E k \in TableQueries : FinalStatuses[k] = "error"
         THEN View("error", [k \in TableQueries |-> FinalStatuses[k]], <<>>)
         ELSE View("data", [k \in TableQueries |-> FinalStatuses[k]],
                   renderGroups(outcome["prices"].data, outcome["exchangeRates"].data))

FinalChartView ==
    IF \A k \in QueryKeys : FinalStatuses[k] = "success"
    THEN Unmounted(QueryKeys)
    ELSE View("error", FinalStatuses, <<>>)

\* C20: completion-order independence. Once every fetch has completed and
\* the page shows it, what the two components show (groups, cards with their
\* converted amounts, chart entries) is fixed by the outcomes of the fetches,
\* whatever the order they completed in.
C20_OrderIndependence ==
    AllSettledAndRendered =>
        /\ tableView = FinalTableView
        /\ chartView = FinalChartView

\* The fetches completed household first, prices last; the household fetch
\* failed: PriceTable shows the two groups, PriceComparison the error state.
C20_Witness ==
    /\ settled = <<"householdPrices", "exchangeRates", "prices">>
    /\ AllSettledAndRendered
    /\ queries["householdPrices"] = "error"
    /\ tableView.state = "data" /\ Len(tableView.content) = 2
    /\ tableView.content[2].cards[1][2].text = <<"€", "0", ".", "6", "8">>
    /\ chartView.state = "error"

-----------------------------------------------------------------------------
(* Claims about the two conversions side by side *)

\* C23: the table and the chart agree on conversion. Once both have converted
\* the same amount, currency label and rate table, convertToEUR of
\* PriceTable.tsx and convertToEUR of PriceComparison.tsx have returned the
\* same value.
C23_ConversionAgreement ==
    ("table" \in ran /\ "chart" \in ran) => tableEUR = chartEUR

\* The two conversions agree on every label but "kr".
C23_AgreementButKr ==
    ("table" \in ran /\ "chart" \in ran /\ trim(currency) # kr)
        => tableEUR = chartEUR

-----------------------------------------------------------------------------
(* Claims about the renders of the page *)

\* C24: across any sequence of renders of PriceComparison, in any
\* interleaving of the fetches, every render calls the same hooks as the
\* render before it: the early returns of the loading and the error state
\* never change the number of hooks called between two consecutive renders.
C24_SameHooksEveryRender ==
    [][RenderComparison => hooksCalled(queries) = hooks]_vars

\* The renders that take one of the early returns call the same hooks as the
\* render before them.
C24_SameHooksOnEarlyReturn ==
    [][(RenderComparison /\ (comparisonLoading(queries) \/ comparisonError(queries)))
          => hooksCalled(queries) = hooks]_vars

\* The statuses a render read include one of a fetch still loading, or one
\* of a failed fetch.
ReadLoading(view) == \E k \in DOMAIN view.inputs : view.inputs[k] = "loading"
ReadError(view) == \E k \in DOMAIN view.inputs : view.inputs[k] = "error"

\* C25: loading takes precedence over error. In every interleaving of the
\* fetches, a render of PriceTable or of PriceComparison that read one of its
\* fetches as still loading shows the loading state, also when it read
\* another of its fetches as failed; a render shows the error state only when
\* it read no fetch as loading (and one as failed).
C25_LoadingBeforeError ==
    \A view \in { tableView, chartView } :
        /\ ReadLoading(view) => view.state = "loading"
        /\ view.state = "error" => (~ReadLoading(view) /\ ReadError(view))

\* Both components show the loading state although the price fetch has
\* failed, one other fetch still being under way.
C25_Witness ==
    /\ queries["prices"] = "error"
    /\ tableView.state = "loading" /\ tableView.inputs["prices"] = "error"
    /\ tableView.inputs["exchangeRates"] = "loading"
    /\ chartView.state = "loading" /\ chartView.inputs["prices"] = "error"
    /\ ReadLoading(chartView)

\* What the scheduling of renders is about: a component reads the statuses
\* of its queries anew. A step of this kind can be taken exactly when the
\* component is on the page and a query it reads has changed status since
\* its last render; only RenderTable and RenderComparison change the statuses
\* a view has read.
ReadByTable ==
    /\ tableView.state # "unmounted"
    /\ tableView' = [tableView EXCEPT !.inputs = [k \in TableQueries |-> queries[k]]]

ReadByComparison ==
    /\ chartView.state # "unmounted"
    /\ chartView' = [chartView EXCEPT !.inputs = queries]

\* The page with React's scheduling: useQuery subscribes the component to its
\* query, so a component is rendered again after a query it reads has changed
\* status; a render that is due does not stay due forever. That a fetch
\* settles is no duty of the page: the claims below assume it where they
\* need it.
SpecPageFair ==
    SpecPage /\ WF_<<tableView.inputs>>(ReadByTable)
             /\ WF_<<chartView.inputs>>(ReadByComparison)

\* Every fetch of the component has settled.
TableSettled == \A k \in TableQueries : queries[k] # "loading"
ChartSettled == \A k \in QueryKeys : queries[k] # "loading"

\* C26: progress. If every fetch issued by a component eventually settles,
\* the component eventually leaves the loading state and from then on shows
\* either the error state or its data view; it cannot stay in the loading
\* state forever.
C26_Progress ==
    /\ <>TableSettled => <>[](tableView.state \in { "error", "data" })
    /\ <>ChartSettled => <>[](chartView.state \in { "error", "data" })

\* Once its fetches have settled a component does leave the loading state
\* for good.
C26_LeavesLoading ==
    /\ <>TableSettled => <>[](tableView.state # "loading")
    /\ <>ChartSettled => <>[](chartView.state # "loading")

\* Progress as claimed, in the runs where one of the fetches fails.
C26_ProgressAfterFailure ==
    <>(ChartSettled /\ comparisonError(queries))
        => <>[](tableView.state \in { "error", "data" } /\ chartView.state = "error")

-----------------------------------------------------------------------------
(* Claims about the rows of the table *)

\* C27: four-slot rows. Every group returned by groupByProvider has between
\* 1 and 4 models, never none; the placeholder cells that fill its row up are
\* between 0 and 3, and cards and placeholders together make exactly 4 cells.
C27_FourSlotRows ==
    "group" \in ran =>
        \A g \in 1..Len(groupedData) :
            LET models == groupedData[g].models
                empty == placeholders(models)
            IN  /\ Len(models) \in 1..4
                /\ Len(empty) \in 0..3
                /\ Len(models) + Len(empty) = 4

\* Five records were grouped into a full row, of the first four, and a row
\* of one card and three placeholders.
C27_Witness ==
    /\ "group" \in ran
    /\ Len(pricesData) = 5
    /\ Len(groupedData) = 2
    /\ Len(groupedData[1].models) = 4 /\ placeholders(groupedData[1].models) = <<>>
    /\ Len(groupedData[2].models) = 1 /\ Len(placeholders(groupedData[2].models)) = 3

-----------------------------------------------------------------------------
(* The chart data: the memos of a data render of PriceComparison.tsx *)

\* a + b, a - b, a * b and a / b of JavaScript numbers: exact on finite
\* values, the IEEE 754 results on the infinities and NaN.
NumAdd(a, b) ==
    IF IsNaN(a) \/ IsNaN(b) THEN NaN
    ELSE IF ~IsFinite(a) THEN (IF ~IsFinite(b) /\ b # a THEN NaN ELSE a)
    ELSE IF ~IsFinite(b) THEN b
    ELSE Frac(a[1] * b[2] + b[1] * a[2], a[2] * b[2])

NumSub(a, b) == NumAdd(a, <<-b[1], b[2]>>)

NumSign(a) == IF a[1] < 0 THEN -1 ELSE IF a[1] > 0 THEN 1 ELSE 0

NumTimes(a, b) ==
    IF IsNaN(a) \/ IsNaN(b) THEN NaN
    ELSE IF ~IsFinite(a) \/ ~IsFinite(b)
         THEN (IF NumSign(a) * NumSign(b) = 0 THEN NaN
               ELSE <<NumSign(a) * NumSign(b), 0>>)
    ELSE Frac(a[1] * b[1], a[2] * b[2])

NumOver(a, b) ==
    IF IsNaN(a) \/ IsNaN(b) THEN NaN
    ELSE IF ~IsFinite(a) THEN (IF ~IsFinite(b) THEN NaN
                               ELSE <<NumSign(a) * (IF b[1] < 0 THEN -1 ELSE 1), 0>>)
    ELSE IF ~IsFinite(b) THEN NumZero
    ELSE IF b = NumZero THEN (IF a = NumZero THEN NaN ELSE <<NumSign(a), 0>>)
    ELSE Frac(a[1] * b[2], a[2] * b[1])

\* Math.min(...values) and Math.max(...values): Infinity and -Infinity of no
\* values, NaN when a value is NaN.
mathMin(values) ==
    IF values = <<>> THEN PosInfinity
    ELSE IF \E i \in 1..Len(values) : IsNaN(values[i]) THEN NaN
    ELSE CHOOSE x \in { values[i] : i \in 1..Len(values) } :
            \A j \in 1..Len(values) : ~NumLess(values[j], x)

mathMax(values) ==
    IF values = <<>> THEN NegInfinity
    ELSE IF \E i \in 1..Len(values) : IsNaN(values[i]) THEN NaN
    ELSE CHOOSE x \in { values[i] : i \in 1..Len(values) } :
            \A j \in 1..Len(values) : ~NumLess(x, values[j])

\* The objects { minPrice, maxPrice, paddedMin, paddedRange } and
\* { minHousehold, maxHousehold, paddedMinHousehold, paddedRangeHousehold },
\* held as the tuple of their four fields in this order.
Ranges(min, max, paddedMin, paddedRange) == <<min, max, paddedMin, paddedRange>>

\* The body both range memos share: 8% of the range is added on each side.
paddedRanges(values) ==
    LET min == mathMin(values)
        max == mathMax(values)
        range == NumSub(max, min)
        padding == NumTimes(range, Frac(8, 100))
        paddedMin == NumSub(min, padding)
        paddedMax == NumAdd(max, padding)
    IN  Ranges(min, max, paddedMin, NumSub(paddedMax, paddedMin))

\* priceRanges without the test for an empty list.
priceRanges_NoGuard(prices) ==
    paddedRanges([i \in 1..Len(prices) |-> prices[i].priceEUR])

\* The priceRanges memo: null when no record of the plan was fetched.
priceRanges(prices) ==
    IF Len(prices) = 0 THEN Null
    ELSE paddedRanges([i \in 1..Len(prices) |-> prices[i].priceEUR])

\* The householdRanges memo: null when the lookup is empty.
householdRanges(map) ==
    IF Len(map) = 0 THEN Null
    ELSE paddedRanges([i \in 1..Len(map) |-> map[i].value])

\* Map.prototype.has and Map.prototype.get.
mapHas(map, key) == \E i \in 1..Len(map) : map[i].key = key

mapGet(map, key) ==
    IF mapHas(map, key) THEN map[CHOOSE i \in 1..Len(map) : map[i].key = key].value
    ELSE Undefined

\* ((value - paddedMin) / paddedRange) * 100
position(value, ranges) ==
    NumTimes(NumOver(NumSub(value, ranges[3]), ranges[4]), Frac(100, 1))

\* The map callback of countryData: one CountryData.
countryEntry(country, map, prices, household) ==
    LET got == mapGet(map, country.country)
        householdPrice == IF Falsy(got) THEN NumZero ELSE got
    IN  [country |-> country.country,
         chargingPrice |-> country.priceEUR,
         householdPrice |-> householdPrice,
         chargingPos |-> position(country.priceEUR, prices),
         householdPos |-> position(householdPrice, household)]

\* .sort((a, b) => a.householdPos - b.householdPos): stable; a difference
\* that is NaN counts as 0 and moves nothing.
RECURSIVE insertByHouseholdPos(_, _)
insertByHouseholdPos(sorted, x) ==
    IF sorted = <<>> THEN <<x>>
    ELSE IF NumLess(x.householdPos, Head(sorted).householdPos) THEN <<x>> \o sorted
    ELSE <<Head(sorted)>> \o insertByHouseholdPos(Tail(sorted), x)

RECURSIVE sortByHouseholdPos(_)
sortByHouseholdPos(seq) ==
    IF seq = <<>> THEN <<>>
    ELSE insertByHouseholdPos(sortByHouseholdPos(SubSeq(seq, 1, Len(seq) - 1)),
                              seq[Len(seq)])

\* The countryData memo.
countryData(both, map, prices, household) ==
    IF prices = Null \/ household = Null THEN <<>>
    ELSE sortByHouseholdPos(
            [i \in 1..Len(both) |-> countryEntry(both[i], map, prices, household)])

\* A render that sorts the fetched array itself before it filters: sort works
\* in place, so the fetched records end up reordered.
power365Chain_SortFetched(prices, rates) ==
    LET sorted == sortByPriceEUR(
                     [i \in 1..Len(prices) |->
                        [priceEUR |-> prices[i].price_kWh, entry |-> prices[i]]])
        fetched == [i \in 1..Len(sorted) |-> sorted[i].entry]
    IN  [pricesData |-> fetched,
         power365Prices |-> computePower365Prices(fetched, rates)]

\* The arrays after the chain (pricesData || []).filter(...).map(...).sort(...):
\* filter and map each return a new array and leave their receiver alone, the
\* map callback builds new objects, and sort works in place on the array map
\* returned.
power365Chain(prices, rates) ==
    [pricesData |-> prices,
     power365Prices |-> computePower365Prices(prices, rates)]

\* Longest fetched record sequence given to the chart.
MaxChartPrices == 3

\* The records the chart is tried on: two plan records of 0.39 EUR, two of
\* Germany, one in CHF, and a record of another plan.
ChartPool ==
    { <<Austria, EuroSign, Frac(39, 100), IONITY_Power_365>>,
      <<Germany, EuroSign, Frac(65, 100), IONITY_Power_365>>,
      <<Germany, EuroSign, Frac(39, 100), IONITY_Power_365>>,
      <<Switzerland, CHF, Frac(38, 100), IONITY_Power_365>>,
      <<Austria, EuroSign, Frac(30, 100), Passport>> }

ChartInputs ==
    UNION { { [i \in 1..n |->
                 Entry(<<i>>, f[i][1], IONITY, f[i][2], f[i][4], f[i][3],
                       Undefined, Undefined)] :
              f \in [1..n -> ChartPool] } : n \in 0..MaxChartPrices }

\* The household datasets the chart is tried on: an empty text, a header
\* alone, and headers with rows, among them a price of 0 (not accepted) and
\* one of Infinity (accepted).
ChartTexts ==
    LET head == <<"h","e","a","d">>
    IN  { <<>>,
          head,
          join(<<head, Row(Germany, <<"0",".","2","5">>)>>, NewLine),
          join(<<head, Row(Germany, <<"0",".","2","5">>),
                 Row(Austria, <<"0",".","1","8">>)>>, NewLine),
          join(<<head, Row(Austria, <<"0",".","1","8">>),
                 Row(Switzerland, InfinityLiteral)>>, NewLine),
          join(<<head, Row(Germany, <<"0">>),
                 Row(Austria, <<"0",".","2","5">>)>>, NewLine),
          join(<<head, Row(Austria, <<"0",".","2","5">>),
                 Row(Germany, <<"0",".","2","5">>),
                 Row(Switzerland, <<"0",".","3">>)>>, NewLine) }

\* The three queries have delivered: the price records, the rate table, the
\* text of the household dataset.
InitChart ==
    /\ pricesData \in ChartInputs
    /\ exchangeRates = mockExchangeRates
    /\ data \in ChartTexts
    /\ line = <<>> /\ columns = NotRun /\ householdData = NotRun
    /\ householdMap = NotRun
    /\ groupedData = NotRun /\ power365Prices = NotRun
    /\ ran = {}
    /\ IdleConvert /\ IdleView

\* The part of a data render of PriceComparison after the early returns: the
\* six memos, then the test that returns null instead of the chart.
RenderChart ==
    /\ "load" \in ran /\ "comparison" \notin ran
    /\ ran' = ran \cup {"comparison"}
    /\ LET chain == power365Chain(pricesData, exchangeRates)
           map == householdPriceMap(householdData)
           both == SelectSeq(chain.power365Prices, LAMBDA p : mapHas(map, p.country))
           prices == priceRanges(chain.power365Prices)
           household == householdRanges(map)
           entries == countryData(both, map, prices, household)
       IN  /\ pricesData' = chain.pricesData
           /\ power365Prices' = chain.power365Prices
           /\ householdMap' = map
           /\ chartData' =
                [priceRanges |-> prices, householdRanges |-> household,
                 countriesWithBothPrices |-> both, countryData |-> entries,
                 shown |-> IF prices = Null \/ household = Null \/ Len(entries) = 0
                           THEN "nothing" ELSE "chart"]
    /\ UNCHANGED <<groupedData, exchangeRates, line, columns, data, householdData,
                   convertVars, model, card, outcome, queries, settled, tableView,
                   chartView, hooks>>

NextChart == FetchHouseholdPrices \/ GroupByProvider \/ RenderChart

SpecChart == InitChart /\ [][NextChart]_vars

-----------------------------------------------------------------------------
(* Claims about the chart data *)

\* C21: empty input. With zero price records groupByProvider returns an
\* empty sequence; with zero records of the plan, or an empty household
\* lookup, the comparison computes no minimum and maximum over the empty
\* collection (the range memo is null, not a range of infinities or NaN),
\* has no chart data and renders nothing.
C21_EmptyInput ==
    /\ ("group" \in ran /\ pricesData = <<>>) => groupedData = <<>>
    /\ "comparison" \in ran =>
          /\ power365Prices = <<>> => chartData.priceRanges = Null
          /\ householdMap = <<>> => chartData.householdRanges = Null
          /\ (power365Prices = <<>> \/ householdMap = <<>>)
                => (chartData.countryData = <<>> /\ chartData.shown = "nothing")

\* No price record and a household dataset of a header alone have been
\* grouped and charted.
C21_Witness ==
    /\ { "load", "group", "comparison" } \subseteq ran
    /\ pricesData = <<>> /\ data = <<"h","e","a","d">>
    /\ groupedData = <<>> /\ power365Prices = <<>> /\ householdMap = <<>>
    /\ chartData.shown = "nothing"

\* Range memos are computed from empty lists only on one side: the other
\* side's memo is still computed and finite.
C21_OneSideEmpty ==
    ("comparison" \in ran /\ power365Prices = <<>> /\ householdMap # <<>>)
        => chartData.householdRanges # Null

\* C22: no mutation of inputs. Grouping, conversion, the plan filter and
\* sort and the chart-data sort leave the fetched price records (their order
\* and every field), the rate table and the household list as they were;
\* only sequences the render made itself are sorted.
C22_NoMutationOfInputs ==
    [][/\ pricesData' = pricesData
       /\ exchangeRates' = exchangeRates
       /\ "load" \in ran => householdData' = householdData]_vars

\* Both sorts had something to reorder: the fetched records were not in
\* price order, nor the countries in the order of their household price, and
\* the records have been grouped.
C22_Witness ==
    /\ { "load", "group", "comparison" } \subseteq ran
    /\ Len(pricesData) = 3 /\ Len(power365Prices) = 3
    /\ pricesData[1].country = Germany /\ power365Prices[1].country # Germany
    /\ Len(chartData.countryData) >= 2
    /\ chartData.countryData[1].country
         # chartData.countriesWithBothPrices[1].country
    /\ Len(groupedData) >= 1

\* C28: every country entry of the chart data has a household price above
\* zero. The lookup holds prices above zero only, an entry exists only for a
\* country the lookup has, and its household price is the lookup's: the
\* default of "|| 0" is never taken.
C28_HouseholdPricePositive ==
    "comparison" \in ran =>
        /\ \A i \in 1..Len(householdMap) : NumLess(NumZero, householdMap[i].value)
        /\ \A i \in 1..Len(chartData.countryData) :
              LET entry == chartData.countryData[i]
              IN  /\ mapHas(householdMap, entry.country)
                  /\ entry.householdPrice = mapGet(householdMap, entry.country)
                  /\ NumLess(NumZero, entry.householdPrice)

\* A chart of Austria and Germany is shown with the household prices of the
\* dataset, 0.18 and 0.25.
C28_Witness ==
    /\ "comparison" \in ran
    /\ chartData.shown = "chart"
    /\ Len(chartData.countryData) = 2
    /\ chartData.countryData[1].country = Austria
    /\ chartData.countryData[1].householdPrice = Frac(18, 100)
    /\ chartData.countryData[2].country = Germany
    /\ chartData.countryData[2].householdPrice = Frac(25, 100)

OffEdges(pos) ==
    IsFinite(pos) /\ NumLess(NumZero, pos) /\ NumLess(pos, Frac(100, 1))

\* C29: chart positions stay off the edges. For every non-empty list of plan
\* prices and household prices, also when all prices are equal or one
\* country alone is present, each plotted country's chargingPos and
\* householdPos is a finite number strictly between 0 and 100.
C29_PositionsOffEdges ==
    "comparison" \in ran =>
        \A i \in 1..Len(chartData.countryData) :
            /\ OffEdges(chartData.countryData[i].chargingPos)
            /\ OffEdges(chartData.countryData[i].householdPos)

\* The positions are between 0 and 100 where the plan prices are not all
\* equal, nor the household prices, and none is infinite.
C29_PositionsOfSpreadPrices ==
    ("comparison" \in ran /\ chartData.priceRanges # Null
       /\ chartData.householdRanges # Null)
        => LET prices == chartData.priceRanges
               household == chartData.householdRanges
           IN  (/\ prices[1] # prices[2] /\ household[1] # household[2]
                /\ IsFinite(household[2]))
                 => \A i \in 1..Len(chartData.countryData) :
                       /\ OffEdges(chartData.countryData[i].chargingPos)
                       /\ OffEdges(chartData.countryData[i].householdPos)

\* C30: the chart data holds at most one entry per country name, for every
\* fetched record sequence.
C30_OneEntryPerCountry ==
    "comparison" \in ran =>
        \A i, j \in 1..Len(chartData.countryData) :
            chartData.countryData[i].country = chartData.countryData[j].country
                => i = j

\* The chart data holds one entry per country where the fetched records of
\* the plan are of different countries.
C30_OneEntryPerFetchedCountry ==
    ("comparison" \in ran
       /\ \A i, j \in 1..Len(pricesData) :
             (isPower365(pricesData[i]) /\ isPower365(pricesData[j])
                /\ pricesData[i].country = pricesData[j].country) => i = j)
        => \A i, j \in 1..Len(chartData.countryData) :
               chartData.countryData[i].country = chartData.countryData[j].country
                   => i = j

====
